---------------------------- MODULE Spec2Model ----------------------------
(***************************************************************************)
(* A model of the chunking engine of pgedge-vectorizer: the token          *)
(* estimator and break-point finder (tokenizer.c), the token chunker and   *)
(* dispatcher (chunking.c) and the markdown parser with its split / merge  *)
(* refinement (hybrid_chunking.c); and of the background workers that      *)
(* take rows off the embedding queue (worker.c).                           *)
(*                                                                         *)
(* A C string is a sequence of bytes; a byte is a one-character string.    *)
(* Two symbolic bytes stand for the bytes >= 0x80: "<C3>" is a UTF-8 lead  *)
(* byte and "<A9>" a continuation byte.  A "const char *" into a buffer is *)
(* a record [pre, buf, off]: buf is the allocation, off the index the      *)
(* pointer holds, and pre describes the memory in front of the allocation  *)
(* (read only by out-of-bounds accesses).                                  *)
(*                                                                         *)
(* The queue table is a function from row id to row.  A worker's open      *)
(* transaction keeps its writes in tx; they reach the queue at its commit  *)
(* and are dropped at its abort.  Row locks last as long as the            *)
(* transaction that took them.                                             *)
(***************************************************************************)
EXTENDS Integers, Sequences, FiniteSets, TLC

VARIABLES
    pc,                 \* the function or loop being executed
    content,            \* argument: const char *content
    config,             \* argument: ChunkConfig *config
    pgedge_vectorizer_strip_non_ascii,  \* GUC (bool)
    pgedge_vectorizer_model,            \* GUC (string)
    pgedge_vectorizer_default_chunk_strategy,  \* GUC (string)
    pgedge_vectorizer_default_chunk_size,      \* GUC (int)
    pgedge_vectorizer_default_chunk_overlap,   \* GUC (int)
    args,               \* the SQL call: PG_FUNCTION_ARGS of chunk_text_sql
    call,               \* a tokenizer function called on its own: arguments, value
    queue,              \* the committed rows of pgedge_vectorizer.queue, by id
    workers,            \* each background worker: position, locals, transaction
    provider,           \* the embedding provider as the workers find it
    stray,              \* memory in front of the buffer the running loop scans
    processed_content,  \* chunk_by_tokens: content after the optional filter
    start_offset,       \* the running offset of the active segmentation loop
    chunks,             \* chunk_by_tokens: List *chunks (texts)
    spans,              \* history of the segmentation loop iterations
    frame,              \* chunk_hybrid or chunk_markdown, whichever runs
    likely_markdown,    \* the value is_likely_markdown returned
    parser,             \* parse_markdown_structure: its locals
    elements,           \* the parsed List of MarkdownElement
    hchunks,            \* chunk_hybrid: the initial List of HybridChunk
    refined_chunks,     \* the list split_oversized_chunks builds
    out_chunks,         \* merge_undersized_chunks / elements_to_chunks_simple: result list
    lc,                 \* the foreach cursor of the running pass (1-based)
    pending,            \* merge_undersized_chunks: HybridChunk *pending
    result              \* the returned text array

tokvars == <<processed_content, chunks>>
loopvars == <<start_offset, spans>>
mdvars == <<frame, likely_markdown, parser, elements>>
passvars == <<hchunks, refined_chunks, out_chunks, lc, pending>>
sqlvars == <<args, pgedge_vectorizer_default_chunk_strategy,
             pgedge_vectorizer_default_chunk_size,
             pgedge_vectorizer_default_chunk_overlap>>
workervars == <<queue, workers, provider>>
envvars == <<content, config, pgedge_vectorizer_strip_non_ascii,
             pgedge_vectorizer_model, sqlvars, call, workervars>>
vars == <<pc, envvars, tokvars, loopvars, mdvars, passvars, stray, result>>

----------------------------------------------------------------------------
(* Bytes and C strings *)

NULL == <<"<NULL>">>
NUL == "<NUL>"

\* the byte 0x60 (a string literal cannot hold it)
BACKTICK == "<60>"

\* (c & 0xC0) == 0x80
IsContinuation(c) == c = "<A9>"

\* (unsigned char) c >= 128
IsNonAscii(c) == c \in {"<C3>", "<A9>"}

MinOf(S) == CHOOSE m \in S : \A n \in S : m <= n

Ptr(buf, off, pre) == [pre |-> pre, buf |-> buf, off |-> off]

\* text[i] for a pointer text; an index in front of the allocation reads
\* whatever lies there: text.pre = 0 says no space or newline lies there,
\* text.pre < 0 is the index of the one byte there that holds a space.
ByteAt(text, i) ==
    LET a == text.off + i IN
    IF a < 0 THEN (IF a = text.pre THEN " " ELSE "?")
    ELSE IF a >= Len(text.buf) THEN NUL
    ELSE text.buf[a + 1]

\* the C string a pointer designates (up to the terminating NUL)
CStr(text) == SubSeq(text.buf, text.off + 1, Len(text.buf))

\* pnstrdup(s, n)
pnstrdup(s, n) == SubSeq(s, 1, IF n < Len(s) THEN n ELSE Len(s))

----------------------------------------------------------------------------
(* tokenizer.c *)

chars_per_token == 4

\* count_tokens: code points (bytes that are not continuation bytes), /4
\* rounded up.
count_tokens(text, model) ==
    IF text = NULL \/ Len(text) = 0 THEN 0
    ELSE LET char_count == Cardinality({i \in 1..Len(text) :
                                          ~IsContinuation(text[i])})
         IN (char_count + 3) \div chars_per_token

RECURSIVE ScanChars(_, _, _, _)
ScanChars(text, p, actual_chars, estimated_chars) ==
    IF p >= Len(text) \/ ~(actual_chars < estimated_chars) THEN p
    ELSE ScanChars(text, p + 1,
                   IF ~IsContinuation(text[p + 1]) THEN actual_chars + 1
                                                   ELSE actual_chars,
                   estimated_chars)

INT_MAX == 2147483647

\* target_tokens * 4 is beyond an int
Overflows(target_tokens) == target_tokens > INT_MAX \div chars_per_token

\* "estimated_chars = target_tokens * 4" in a 32-bit int that wraps around
\* (target_tokens > 0): the low 30 bits of target_tokens, times 4, signed
EstimatedChars(target_tokens) ==
    LET low == target_tokens % (INT_MAX \div 2 + 1)
    IN  IF Overflows(low) THEN (low - (INT_MAX \div 2 + 1)) * chars_per_token
        ELSE low * chars_per_token

get_char_offset_for_tokens(text, target_tokens, model) ==
    IF text = NULL \/ target_tokens <= 0 THEN 0
    ELSE ScanChars(text, 0, 0, EstimatedChars(target_tokens))

search_window == 50

\* the offsets the three loops of find_good_break_point visit
BreakWindow(target_offset, max_offset) ==
    {offset \in (target_offset - search_window)..(target_offset + search_window - 1) :
        offset < max_offset}

\* the offsets o for which the loops of find_good_break_point read text[o]:
\* each loop walks the window upward and stops at its first hit; the first
\* two read text[offset-1] and then text[offset] behind "offset > 0 &&", the
\* third reads text[offset] at once
Examined(text, target_offset, max_offset) ==
    LET W == BreakWindow(target_offset, max_offset)
        Para == {o \in W : o > 0 /\ ByteAt(text, o - 1) = "\n"
                                 /\ ByteAt(text, o) = "\n"}
        Sent == {o \in W : o > 0 /\ ByteAt(text, o - 1) \in {".", "?", "!"}
                                 /\ ByteAt(text, o) \in {" ", "\n"}}
        Word == {o \in W : ByteAt(text, o) \in {" ", "\n"}}
        Visited(Hits) == IF Hits = {} THEN W ELSE {o \in W : o <= MinOf(Hits)}
        ParaReads == UNION {{o - 1} \cup (IF ByteAt(text, o - 1) = "\n"
                                          THEN {o} ELSE {}) :
                               o \in {v \in Visited(Para) : v > 0}}
        SentReads == UNION {{o - 1} \cup (IF ByteAt(text, o - 1) \in {".", "?", "!"}
                                          THEN {o} ELSE {}) :
                               o \in {v \in Visited(Sent) : v > 0}}
        WordReads == Visited(Word)
    IN  IF target_offset >= max_offset THEN {}
        ELSE IF Para # {} THEN ParaReads
        ELSE IF Sent # {} THEN ParaReads \cup SentReads
        ELSE ParaReads \cup SentReads \cup WordReads

find_good_break_point(text, target_offset, max_offset) ==
    LET best_offset == target_offset
        W == BreakWindow(target_offset, max_offset)
        Para == {o \in W : o > 0 /\ ByteAt(text, o - 1) = "\n"
                                 /\ ByteAt(text, o) = "\n"}
        Sent == {o \in W : o > 0 /\ ByteAt(text, o - 1) \in {".", "?", "!"}
                                 /\ ByteAt(text, o) \in {" ", "\n"}}
        Word == {o \in W : ByteAt(text, o) \in {" ", "\n"}}
    IN  IF target_offset >= max_offset THEN max_offset
        ELSE IF Para # {} THEN MinOf(Para)
        ELSE IF Sent # {} THEN MinOf(Sent)
        ELSE IF Word # {} THEN MinOf(Word)
        ELSE IF best_offset < max_offset THEN best_offset ELSE max_offset

----------------------------------------------------------------------------
(* chunking.c *)

RECURSIVE StripFrom(_, _, _)
StripFrom(text, i, res) ==
    IF i > Len(text) THEN res
    ELSE IF ~IsNonAscii(text[i]) THEN StripFrom(text, i + 1, Append(res, text[i]))
    ELSE IF Len(res) > 0 /\ res[Len(res)] # " "
         THEN StripFrom(text, i + 1, Append(res, " "))
         ELSE StripFrom(text, i + 1, res)

\* the filter that removes the bytes >= 0x80 and puts nothing in their place
strip_non_ascii_Dropped(text) ==
    IF text = NULL THEN NULL ELSE SelectSeq(text, LAMBDA c : ~IsNonAscii(c))

strip_non_ascii(text) == IF text = NULL THEN NULL ELSE StripFrom(text, 1, <<>>)

\* the whitespace test taking a full stop for whitespace too
IsSpace4_OrDot(c) == c \in {" ", "\t", "\n", "\r", "."}

IsSpace4(c) == c \in {" ", "\t", "\n", "\r"}

\* while (start < len && isspace4(buf[start])) start++
RECURSIVE SkipWhitespace(_, _)
SkipWhitespace(buf, start) ==
    IF start < Len(buf) /\ IsSpace4(buf[start + 1])
    THEN SkipWhitespace(buf, start + 1) ELSE start

\* the overlap loop: forward to the next space, newline or tab of the chunk
RECURSIVE OverlapScan(_, _, _)
OverlapScan(chunk_str, overlap_offset, end_offset) ==
    IF overlap_offset < end_offset
       /\ (IF overlap_offset < Len(chunk_str)
           THEN chunk_str[overlap_offset + 1] ELSE NUL) \notin {" ", "\n", "\t"}
    THEN OverlapScan(chunk_str, overlap_offset + 1, end_offset)
    ELSE overlap_offset

\* the break point taken as found (a negative one as 0), without the
\* "ensure progress" test
SegmentEnd_Unguarded(buf, start, size, pre, model) ==
    LET text == Ptr(buf, start, pre)
        target_offset == get_char_offset_for_tokens(CStr(text), size, model)
        found == find_good_break_point(text, target_offset, Len(buf) - start)
    IN  IF found < 0 THEN 0 ELSE found

\* One segment of a segmentation loop (target, break point, progress guard),
\* shared in shape by chunk_by_tokens, split_oversized_chunks and
\* elements_to_chunks_simple.
SegmentEnd(buf, start, size, pre, model) ==
    LET text == Ptr(buf, start, pre)
        target_offset == get_char_offset_for_tokens(CStr(text), size, model)
        remaining == Len(buf) - start
        found == find_good_break_point(text, target_offset, remaining)
    IN  IF found <= 0
        THEN (IF target_offset > 0 THEN target_offset ELSE remaining)
        ELSE found

\* the advance with the word boundary sought backward from the overlap point
OverlapAdvance_Backward(chunk_str, end_offset, overlap, model) ==
    LET chunk_tokens == count_tokens(chunk_str, model) IN
    IF overlap > 0 /\ overlap < chunk_tokens
    THEN LET o0 == get_char_offset_for_tokens(chunk_str, chunk_tokens - overlap, model)
             B == {k \in 0..o0 : k < Len(chunk_str)
                                 /\ chunk_str[k + 1] \in {" ", "\n", "\t"}}
         IN IF B = {} THEN 0 ELSE CHOOSE k \in B : \A j \in B : j <= k
    ELSE end_offset

\* the overlap applied to every chunk, whatever its token count
OverlapAdvance_Always(chunk_str, end_offset, overlap, model) ==
    LET chunk_tokens == count_tokens(chunk_str, model) IN
    IF overlap > 0
    THEN LET o0 == get_char_offset_for_tokens(chunk_str, chunk_tokens - overlap, model)
             o1 == OverlapScan(chunk_str, o0, end_offset)
         IN IF o1 >= end_offset THEN end_offset ELSE o1
    ELSE end_offset

\* The advance of chunk_by_tokens after a chunk of end_offset bytes.
OverlapAdvance(chunk_str, end_offset, overlap, model) ==
    LET chunk_tokens == count_tokens(chunk_str, model) IN
    IF overlap > 0 /\ overlap < chunk_tokens
    THEN LET o0 == get_char_offset_for_tokens(chunk_str, chunk_tokens - overlap, model)
             o1 == OverlapScan(chunk_str, o0, end_offset)
         IN IF o1 >= end_offset THEN end_offset ELSE o1
    ELSE end_offset

----------------------------------------------------------------------------
(* hybrid_chunking.c: line classification *)

MAX_HEADING_LEVELS == 6

\* content[i] as C reads it (0-based; the terminator at Len)
At(s, i) == IF i >= 0 /\ i < Len(s) THEN s[i + 1] ELSE NUL

IsDigit(c) == c \in {"0", "1", "2", "3", "4", "5", "6", "7", "8", "9"}

\* number of consecutive bytes from index i on that satisfy Test, at most cap
RunLen(s, i, cap, Test(_)) ==
    MinOf({k \in 0..cap : k = cap \/ i + k >= Len(s) \/ ~Test(s[i + k + 1])})

IsSpaceChar(c) == c = " "
IsBlankChar(c) == c \in {" ", "\t"}
IsHash(c) == c = "#"

is_blank_line(line) == \A i \in 1..Len(line) : line[i] \in {" ", "\t", "\r"}

get_heading_level(line) ==
    LET len == Len(line)
        level == RunLen(line, 0, MAX_HEADING_LEVELS, IsHash)
    IN  IF len = 0 THEN 0
        ELSE IF level = 0 THEN 0
        ELSE IF level < len /\ line[level + 1] # " " /\ line[level + 1] # "\t" THEN 0
        ELSE level

is_code_fence(line) ==
    LET len == Len(line)
        i == RunLen(line, 0, 3, IsSpaceChar)
    IN  IF len - i < 3 THEN FALSE
        ELSE \/ (line[i + 1] = BACKTICK /\ line[i + 2] = BACKTICK /\ line[i + 3] = BACKTICK)
             \/ (line[i + 1] = "~" /\ line[i + 2] = "~" /\ line[i + 3] = "~")

is_list_item(line) ==
    LET len == Len(line)
        i == RunLen(line, 0, len, IsBlankChar)
    IN  IF i >= len THEN FALSE
        ELSE IF line[i + 1] \in {"-", "*", "+"}
        THEN i + 1 < len /\ line[i + 2] \in {" ", "\t"}
        ELSE IF IsDigit(line[i + 1])
        THEN LET j == i + RunLen(line, i, len, IsDigit)
             IN /\ j < len /\ line[j + 1] \in {".", ")"}
                /\ j + 1 < len /\ line[j + 2] \in {" ", "\t"}
        ELSE FALSE

is_blockquote(line) ==
    LET len == Len(line)
        i == RunLen(line, 0, 3, IsSpaceChar)
    IN  i < len /\ line[i + 1] = ">"

is_horizontal_rule(line) ==
    LET len == Len(line)
        i == RunLen(line, 0, 3, IsSpaceChar)
    IN  IF i >= len THEN FALSE
        ELSE IF line[i + 1] \notin {"-", "*", "_"} THEN FALSE
        ELSE LET rule_char == line[i + 1]
                 rest == {k \in (i + 1)..len : TRUE}
             IN /\ \A k \in rest : line[k] = rule_char \/ line[k] = " "
                /\ Cardinality({k \in rest : line[k] = rule_char}) >= 3

is_table_row(line) == \E i \in 1..Len(line) : line[i] = "|"

----------------------------------------------------------------------------
(* hybrid_chunking.c: is_likely_markdown *)

\* the line-start tests at position pos (after at most 4 leading spaces)
LineStartHeading(c, pos) ==
    LET p == pos + RunLen(c, pos, 4, IsSpaceChar)
        level == RunLen(c, p, MAX_HEADING_LEVELS, IsHash)
    IN  /\ At(c, p) = "#"
        /\ level > 0
        /\ At(c, p + level) \in {" ", "\t", "\n", NUL}

LineStartCodeFence(c, pos) ==
    LET p == pos + RunLen(c, pos, 4, IsSpaceChar)
    IN  /\ At(c, p) \in {BACKTICK, "~"}
        /\ At(c, p + 1) # NUL /\ At(c, p + 2) # NUL
        /\ At(c, p) = At(c, p + 1) /\ At(c, p + 1) = At(c, p + 2)

LineStartList(c, pos) ==
    LET p == pos + RunLen(c, pos, 4, IsSpaceChar)
    IN  IF At(c, p) \in {"-", "*", "+"} /\ At(c, p + 1) # NUL
           /\ At(c, p + 1) \in {" ", "\t"}
        THEN TRUE
        ELSE IF IsDigit(At(c, p))
        THEN LET q == p + RunLen(c, p, Len(c), IsDigit)
             IN /\ At(c, q) \in {".", ")"}
                /\ At(c, q + 1) # NUL
                /\ At(c, q + 1) \in {" ", "\t"}
        ELSE FALSE

LineStartBlockquote(c, pos) ==
    LET p == pos + RunLen(c, pos, 4, IsSpaceChar)
    IN  At(c, p) = ">"

\* the inline tests at position pos
NotNewline(ch) == ch # "\n"

InlineTable(c, pos) ==
    /\ At(c, pos) = "|"
    /\ LET eol == pos + 1 + RunLen(c, pos + 1, Len(c), NotNewline)
       IN \E k \in (pos + 1)..(eol - 1) : At(c, k) = "|"

\* the index after the bracket scan that starts behind a '[' and the depth left
RECURSIVE BracketScan(_, _, _)
BracketScan(c, p, depth) ==
    IF At(c, p) # NUL /\ depth > 0
    THEN BracketScan(c, p + 1,
                     IF At(c, p) = "[" THEN depth + 1
                     ELSE IF At(c, p) = "]" THEN depth - 1 ELSE depth)
    ELSE <<p, depth>>

InlineLink(c, pos) ==
    /\ At(c, pos) = "["
    /\ LET r == BracketScan(c, pos + 1, 1)
       IN r[2] = 0 /\ At(c, r[1]) = "("

\* the indicators newly seen at pos (each kind is counted once)
SeenAt(c, pos, at_line_start, seen) ==
    LET ls == IF at_line_start
              THEN (IF LineStartHeading(c, pos) THEN {"heading"} ELSE {})
                   \cup (IF LineStartCodeFence(c, pos) THEN {"code_fence"} ELSE {})
                   \cup (IF LineStartList(c, pos) THEN {"list"} ELSE {})
                   \cup (IF LineStartBlockquote(c, pos) THEN {"blockquote"} ELSE {})
              ELSE {}
        inl == (IF InlineTable(c, pos) THEN {"table"} ELSE {})
               \cup (IF InlineLink(c, pos) THEN {"link"} ELSE {})
    IN  seen \cup ls \cup inl

\* "Early exit if we have enough indicators"
EnoughIndicators(indicators) == indicators >= 2

\* the verdict by the number of kinds alone
FinalVerdict_CountOnly(seen) == Cardinality(seen) >= 2

\* "Require at least 1 strong indicator (heading or code fence) or 2 weak"
FinalVerdict(seen) ==
    \/ "heading" \in seen
    \/ "code_fence" \in seen
    \/ Cardinality(seen) >= 2

RECURSIVE MarkdownScan(_, _, _, _)
MarkdownScan(c, pos, at_line_start, seen) ==
    IF At(c, pos) = NUL THEN FinalVerdict(seen)
    ELSE LET now == SeenAt(c, pos, at_line_start, seen)
         IN IF EnoughIndicators(Cardinality(now)) THEN TRUE
            ELSE MarkdownScan(c, pos + 1, At(c, pos) = "\n", now)

is_likely_markdown(c) ==
    IF c = NULL \/ Len(c) = 0 THEN FALSE
    ELSE MarkdownScan(c, 0, TRUE, {})

----------------------------------------------------------------------------
(* hybrid_chunking.c: parse_markdown_structure *)

\* a string literal of the source, as bytes
STR_SEP == <<" ", ">", " ">>                                  \* " > "
STR_CONTEXT_OPEN == <<"[", "C", "o", "n", "t", "e", "x", "t", ":", " ">>
STR_CONTEXT_CLOSE == <<"]", "\n", "\n">>
STR_PARA_SEP == <<"\n", "\n">>

Hashes(n) == [k \in 1..n |-> "#"]

\* build_heading_context: "# H1 > ## H2 > ### H3", NULL for an empty stack
RECURSIVE BuildContextFrom(_, _, _, _)
BuildContextFrom(heading_stack, i, stack_size, res) ==
    IF i > stack_size THEN res
    ELSE IF heading_stack[i] # NULL
    THEN BuildContextFrom(heading_stack, i + 1, stack_size,
                          (IF Len(res) > 0 THEN res \o STR_SEP ELSE res)
                          \o Hashes(i) \o <<" ">> \o heading_stack[i])
    ELSE BuildContextFrom(heading_stack, i + 1, stack_size, res)

build_heading_context(heading_stack, stack_size) ==
    LET res == BuildContextFrom(heading_stack, 1, stack_size, <<>>)
    IN  IF Len(res) = 0 THEN NULL ELSE res

\* the stack left as it is when a heading comes in
ClearDeeper_Nothing(heading_stack, heading_level) == heading_stack

\* "Clear deeper levels": for (i = heading_level; i < MAX_HEADING_LEVELS; i++)
ClearDeeper(heading_stack, heading_level) ==
    [i \in 1..MAX_HEADING_LEVELS |->
        IF i - 1 >= heading_level THEN NULL ELSE heading_stack[i]]

\* the heading text: the line behind its '#'s and the blanks that follow
HeadingText(line, heading_level) ==
    LET skip == heading_level + RunLen(line, heading_level, Len(line), IsBlankChar)
    IN  SubSeq(line, skip + 1, Len(line))

\* the stack after a heading line of level heading_level
PushHeading(heading_stack, line, heading_level) ==
    [ClearDeeper(heading_stack, heading_level)
        EXCEPT ![heading_level] = HeadingText(line, heading_level)]

MarkdownElement(type, heading_level, text, context) ==
    [type |-> type, heading_level |-> heading_level, content |-> text,
     token_count |-> count_tokens(text, pgedge_vectorizer_model),
     heading_context |-> context]

\* the horizontal rule element: token_count = 1
RuleElement(line, context) ==
    [type |-> "HORIZONTAL_RULE", heading_level |-> 0, content |-> line,
     token_count |-> 1, heading_context |-> context]

\* "save any pending content": emit current_block as an element of type
Flush(st, type) ==
    IF Len(st.current_block) > 0
    THEN [st EXCEPT !.elements = Append(@, MarkdownElement(type, 0,
                                        st.current_block,
                                        st.current_heading_context)),
                    !.current_block = <<>>]
    ELSE st

\* index of the end of the line that starts at pos
LineEnd(c, pos) == pos + RunLen(c, pos, Len(c), NotNewline)

\* the code block accumulation that leaves blank lines out
AppendRaw_NoBlank(block, line, has_nl) ==
    IF is_blank_line(line) THEN block
    ELSE block \o line \o (IF has_nl THEN <<"\n">> ELSE <<>>)

\* appendBinaryStringInfo(line); if (*pos == '\n') appendStringInfoChar('\n')
AppendRaw(block, line, has_nl) ==
    block \o line \o (IF has_nl THEN <<"\n">> ELSE <<>>)

\* the kind switches of a list / blockquote / table line, applied in the
\* order of the source: each flushes when the kind differs, then sets it
SwitchKind(st, is_kind, kind) ==
    IF is_kind
    THEN [(IF st.current_type # kind THEN Flush(st, st.current_type) ELSE st)
            EXCEPT !.current_type = kind]
    ELSE st

\* "Accumulate line to current block"
Accumulate(st, line) ==
    [st EXCEPT !.current_block =
        (IF Len(@) > 0 THEN @ \o <<"\n">> ELSE @) \o line]

\* a code fence line ends the open code block
CloseCodeBlock(st, line, has_nl) ==
    LET block == AppendRaw(st.current_block, line, has_nl)
        st1 == [st EXCEPT !.current_block = block]
    IN  [Flush(st1, "CODE_BLOCK") EXCEPT !.current_block = <<>>,
                                         !.in_code_block = FALSE,
                                         !.current_type = "PARAGRAPH"]

\* the heading line with the stack updated before the pending content is saved
HeadingLine_LateFlush(st, line, heading_level) ==
    LET stack == PushHeading(st.heading_stack, line, heading_level)
        context == build_heading_context(stack, MAX_HEADING_LEVELS)
        st1 == Flush([st EXCEPT !.current_heading_context = context],
                     st.current_type)
    IN  [st1 EXCEPT !.heading_stack = stack,
                    !.elements = Append(@, MarkdownElement("HEADING",
                                           heading_level, line, context)),
                    !.current_type = "PARAGRAPH"]

HeadingLine(st, line, heading_level) ==
    LET st1 == Flush(st, st.current_type)
        stack == PushHeading(st1.heading_stack, line, heading_level)
        context == build_heading_context(stack, MAX_HEADING_LEVELS)
    IN  [st1 EXCEPT !.heading_stack = stack,
                    !.current_heading_context = context,
                    !.elements = Append(@, MarkdownElement("HEADING",
                                           heading_level, line, context)),
                    !.current_type = "PARAGRAPH"]

RuleLine(st, line) ==
    LET st1 == Flush(st, st.current_type)
    IN  [st1 EXCEPT !.elements = Append(@, RuleElement(line,
                                           st1.current_heading_context)),
                    !.current_type = "PARAGRAPH"]

\* one iteration of the while loop of parse_markdown_structure
ParseLine(c, st) ==
    LET line_start == st.pos
        line_end == LineEnd(c, line_start)
        line == SubSeq(c, line_start + 1, line_end)
        has_nl == At(c, line_end) = "\n"
        next_pos == IF has_nl THEN line_end + 1 ELSE line_end
        fence == is_code_fence(line)
        \* a fence outside a code block opens one and falls through
        opened == IF fence /\ ~st.in_code_block
                  THEN [Flush(st, st.current_type)
                           EXCEPT !.in_code_block = TRUE,
                                  !.current_type = "CODE_BLOCK"]
                  ELSE st
        heading_level == get_heading_level(line)
        after ==
            IF fence /\ st.in_code_block THEN CloseCodeBlock(st, line, has_nl)
            ELSE IF opened.in_code_block
            THEN [opened EXCEPT !.current_block = AppendRaw(@, line, has_nl)]
            ELSE IF is_blank_line(line)
            THEN [Flush(opened, opened.current_type)
                     EXCEPT !.current_type = "PARAGRAPH"]
            ELSE IF heading_level > 0 THEN HeadingLine(opened, line, heading_level)
            ELSE IF is_horizontal_rule(line) THEN RuleLine(opened, line)
            ELSE Accumulate(
                   SwitchKind(
                     SwitchKind(
                       SwitchKind(opened, is_list_item(line), "LIST_ITEM"),
                       is_blockquote(line), "BLOCKQUOTE"),
                     is_table_row(line), "TABLE"),
                   line)
    IN  [after EXCEPT !.pos = next_pos]

\* the locals of parse_markdown_structure at its start
ParserStart ==
    [pos |-> 0, in_code_block |-> FALSE, current_block |-> <<>>,
     current_type |-> "PARAGRAPH",
     heading_stack |-> [i \in 1..MAX_HEADING_LEVELS |-> NULL],
     current_heading_context |-> NULL, elements |-> <<>>]

\* "Save final block"
ParseFinish(st) == Flush(st, st.current_type)

----------------------------------------------------------------------------
(* hybrid_chunking.c: chunks *)

\* create_hybrid_chunk
create_hybrid_chunk(text, heading_context) ==
    [content |-> text,
     token_count |-> count_tokens(text, pgedge_vectorizer_model),
     heading_context |-> heading_context]

\* no element left out of the chunks, the rules included
IsSkipped_Nothing(elem) == FALSE

\* heading elements left out of the chunks along with the rules
IsSkipped_Headings(elem) == elem.type \in {"HORIZONTAL_RULE", "HEADING"}

\* "Skip horizontal rules"
IsSkipped(elem) == elem.type = "HORIZONTAL_RULE"

\* chunk_hybrid step 2: the initial chunks of the parsed elements
RECURSIVE InitialChunks(_)
InitialChunks(elems) ==
    IF Len(elems) = 0 THEN <<>>
    ELSE LET e == Head(elems)
         IN (IF IsSkipped(e) THEN <<>>
             ELSE <<create_hybrid_chunk(e.content, e.heading_context)>>)
            \o InitialChunks(Tail(elems))

\* chunk_hybrid step 4: "Use 25% of chunk_size as minimum threshold"
min_tokens_floor == 20
MinTokens(chunk_size) ==
    IF chunk_size \div 4 < min_tokens_floor THEN min_tokens_floor
    ELSE chunk_size \div 4

\* the text of a returned chunk
RenderChunk(chunk) ==
    IF chunk.heading_context # NULL /\ Len(chunk.heading_context) > 0
    THEN STR_CONTEXT_OPEN \o chunk.heading_context \o STR_CONTEXT_CLOSE
         \o chunk.content
    ELSE chunk.content

RenderAll(list) == [i \in 1..Len(list) |-> RenderChunk(list[i])]

\* merge_undersized_chunks: "Check if contexts match"
SameContext(pending_chunk, chunk) ==
    \/ pending_chunk.heading_context = NULL /\ chunk.heading_context = NULL
    \/ /\ pending_chunk.heading_context # NULL
       /\ chunk.heading_context # NULL
       /\ pending_chunk.heading_context = chunk.heading_context

\* the merge test without the comparison of the contexts
CanMerge_AnyContext(pending_chunk, chunk, max_tokens) ==
    pending_chunk.token_count + chunk.token_count <= max_tokens

\* merge_undersized_chunks: "Check if we can merge"
CanMerge(pending_chunk, chunk, max_tokens) ==
    /\ SameContext(pending_chunk, chunk)
    /\ pending_chunk.token_count + chunk.token_count <= max_tokens

\* the merge with the two token counts added up
MergeInto_Summed(pending_chunk, chunk) ==
    [pending_chunk EXCEPT
        !.content = pending_chunk.content \o STR_PARA_SEP \o chunk.content,
        !.token_count = pending_chunk.token_count + chunk.token_count]

\* merge_undersized_chunks: "Merge chunks", "Update pending chunk"
MergeInto(pending_chunk, chunk) ==
    LET merged == pending_chunk.content \o STR_PARA_SEP \o chunk.content
    IN  [pending_chunk EXCEPT
            !.content = merged,
            !.token_count = count_tokens(merged, pgedge_vectorizer_model)]

----------------------------------------------------------------------------
(* Inputs *)

MaxPieces == 3
MaxChunkSize == 2
MaxOverlap == 1
MaxDetectLen == 4
MaxLines == 4
MaxBlocks == 3
MaxRefineSize == 3

Model == "text-embedding-3-small"

DEFAULT_CHUNK_SIZE == 400
DEFAULT_CHUNK_OVERLAP == 50

TokPieces == { <<"a", "b", "c", "d">>, <<"e">>, <<" ">>, <<"\n">>, <<".", " ">>,
               <<"<C3>", "<A9>">> }

RECURSIVE Concats(_, _)
Concats(P, n) ==
    IF n = 0 THEN {<<>>}
    ELSE LET prev == Concats(P, n - 1)
         IN prev \cup {p \o q : p \in prev, q \in P}

\* texts whose chunks keep whitespace inside, so that overlap has room to act;
\* a text without a break point whose fourth character takes two bytes
TokExamples == { <<"a", "b", "c", "d", " ", "e", "\n", "\n", "a", "b", "c", "d">>,
                 <<"a", "b", "c", "d", " ", "e", ".", " ", "a", "b", "c", "d">>,
                 <<"e", " ", "a", "b", "c", "d", " ", "a", "b", "c", "d", " ", "e">>,
                 <<"a", "b", "<C3>", "<A9>", " ", "d", ".", " ", "a", "b", "c", "d",
                   " ", "<C3>", "<A9>">>,
                 <<"a", "b", "c", "<C3>", "<A9>", "a", "b", "c", "d">> }

\* the flat texts of at most n pieces
TokTexts(n) == Concats(TokPieces, n) \cup TokExamples

StrayChoices == {0, -1}

Config(strategy, chunk_size, overlap) ==
    [strategy |-> strategy, chunk_size |-> chunk_size, overlap |-> overlap]

----------------------------------------------------------------------------
(* chunking.c: chunk_text and chunk_by_tokens *)

\* pg_tolower on the ASCII letters
UpperLetters == <<"A", "B", "C", "D", "E", "F", "G", "H", "I", "J", "K", "L", "M",
                  "N", "O", "P", "Q", "R", "S", "T", "U", "V", "W", "X", "Y", "Z">>
LowerLetters == <<"a", "b", "c", "d", "e", "f", "g", "h", "i", "j", "k", "l", "m",
                  "n", "o", "p", "q", "r", "s", "t", "u", "v", "w", "x", "y", "z">>

pg_tolower(ch) ==
    IF \E k \in 1..26 : UpperLetters[k] = ch
    THEN LowerLetters[CHOOSE k \in 1..26 : UpperLetters[k] = ch]
    ELSE ch

\* the comparison made with case, as strcmp makes it
pg_strcasecmp_CaseSensitive(s1, s2) == IF s1 = s2 THEN 0 ELSE 1

\* pg_strcasecmp reduced to what parse_chunk_strategy tests: 0 when the
\* strings are equal once both are folded to lower case, 1 otherwise
pg_strcasecmp(s1, s2) ==
    IF /\ Len(s1) = Len(s2)
       /\ \A i \in 1..Len(s1) : pg_tolower(s1[i]) = pg_tolower(s2[i])
    THEN 0 ELSE 1

STR_token_based == <<"t", "o", "k", "e", "n", "_", "b", "a", "s", "e", "d">>
STR_token == <<"t", "o", "k", "e", "n">>
STR_semantic == <<"s", "e", "m", "a", "n", "t", "i", "c">>
STR_markdown == <<"m", "a", "r", "k", "d", "o", "w", "n">>
STR_sentence == <<"s", "e", "n", "t", "e", "n", "c", "e">>
STR_recursive == <<"r", "e", "c", "u", "r", "s", "i", "v", "e">>
STR_hybrid == <<"h", "y", "b", "r", "i", "d">>

\* chunking.c 24-47
parse_chunk_strategy(strategy_str) ==
    IF strategy_str = NULL THEN "TOKEN"
    ELSE IF \/ pg_strcasecmp(strategy_str, STR_token_based) = 0
            \/ pg_strcasecmp(strategy_str, STR_token) = 0 THEN "TOKEN"
    ELSE IF pg_strcasecmp(strategy_str, STR_semantic) = 0 THEN "SEMANTIC"
    ELSE IF pg_strcasecmp(strategy_str, STR_markdown) = 0 THEN "MARKDOWN"
    ELSE IF pg_strcasecmp(strategy_str, STR_sentence) = 0 THEN "SENTENCE"
    ELSE IF pg_strcasecmp(strategy_str, STR_recursive) = 0 THEN "RECURSIVE"
    ELSE IF pg_strcasecmp(strategy_str, STR_hybrid) = 0 THEN "HYBRID"
    ELSE "TOKEN"

Return(array) == /\ result' = array
                 /\ pc' = "done"

\* the switch with the unimplemented strategies sent to the hybrid chunker
Dispatch_FallbackHybrid(strategy) ==
    CASE strategy = "TOKEN" -> "chunk_by_tokens"
      [] strategy = "HYBRID" -> "chunk_hybrid"
      [] strategy = "MARKDOWN" -> "chunk_markdown"
      [] strategy \in {"SEMANTIC", "SENTENCE", "RECURSIVE"} -> "chunk_hybrid"
      [] OTHER -> "error"

\* chunking.c 64-85: the switch on config->strategy
Dispatch(strategy) ==
    CASE strategy = "TOKEN" -> "chunk_by_tokens"
      [] strategy = "HYBRID" -> "chunk_hybrid"
      [] strategy = "MARKDOWN" -> "chunk_markdown"
      [] strategy \in {"SEMANTIC", "SENTENCE", "RECURSIVE"} -> "chunk_by_tokens"
      [] OTHER -> "error"

\* chunk_text without its test for absent or empty content
chunk_text_Unguarded ==
    /\ pc = "chunk_text"
    /\ UNCHANGED <<envvars, tokvars, loopvars, mdvars, passvars, stray>>
    /\ pc' = Dispatch(config.strategy)
    /\ UNCHANGED result

\* chunking.c 55-86
chunk_text ==
    /\ pc = "chunk_text"
    /\ UNCHANGED <<envvars, tokvars, loopvars, mdvars, passvars, stray>>
    /\ IF content = NULL \/ Len(content) = 0
       THEN Return(<<>>)
       ELSE pc' = Dispatch(config.strategy) /\ UNCHANGED result

\* PG_FUNCTION_ARGS: isnull holds the numbers of the arguments that are null
Args(isnull, c, strategy, chunk_size, overlap) ==
    [isnull |-> isnull, content |-> c, strategy |-> strategy,
     chunk_size |-> chunk_size, overlap |-> overlap]

\* a call of parse_chunk_strategy on its own, on the name args holds
call_parse_chunk_strategy ==
    /\ pc = "parse_chunk_strategy"
    /\ config' = [config EXCEPT !.strategy = parse_chunk_strategy(args.strategy)]
    /\ pc' = "done"
    /\ UNCHANGED <<content, pgedge_vectorizer_strip_non_ascii,
                   pgedge_vectorizer_model, sqlvars, call, workervars, tokvars,
                   loopvars, mdvars, passvars, stray, result>>

\* chunking.c 317-360: the arguments to the content and the config, up to
\* the call of chunk_text
pgedge_vectorizer_chunk_text_sql ==
    /\ pc = "pgedge_vectorizer_chunk_text_sql"
    /\ UNCHANGED <<pgedge_vectorizer_strip_non_ascii, pgedge_vectorizer_model,
                   sqlvars, call, workervars, tokvars, loopvars, mdvars,
                   passvars, stray, result>>
    /\ IF 0 \in args.isnull
       THEN pc' = "returned_null" /\ UNCHANGED <<content, config>>
       ELSE LET strategy_str == IF 1 \in args.isnull
                                THEN pgedge_vectorizer_default_chunk_strategy
                                ELSE args.strategy
                chunk_size == IF 2 \in args.isnull
                              THEN pgedge_vectorizer_default_chunk_size
                              ELSE args.chunk_size
                overlap == IF 3 \in args.isnull
                           THEN pgedge_vectorizer_default_chunk_overlap
                           ELSE args.overlap
            IN /\ content' = args.content
               /\ config' = Config(parse_chunk_strategy(strategy_str),
                                   chunk_size, overlap)
               /\ pc' = "chunk_text"

\* the filter applied whatever pgedge_vectorizer.strip_non_ascii says
ProcessedContent_AlwaysFiltered(text, strip) == strip_non_ascii(text)

\* chunking.c 159-168: "Strip non-ASCII characters if configured"
ProcessedContent(text, strip) ==
    IF strip THEN strip_non_ascii(text) ELSE text

\* chunking.c 156-190: the guards, the filter and the single-chunk case
chunk_by_tokens ==
    /\ pc = "chunk_by_tokens"
    /\ UNCHANGED <<envvars, spans, mdvars, passvars>>
    /\ IF content = NULL \/ Len(content) = 0
       THEN Return(<<>>)
            /\ UNCHANGED <<processed_content, start_offset, chunks, stray>>
       ELSE LET processed == ProcessedContent(content,
                                 pgedge_vectorizer_strip_non_ascii)
                total_tokens == count_tokens(processed, pgedge_vectorizer_model)
            IN /\ processed_content' = processed
               /\ start_offset' = 0
               /\ IF Len(processed) = 0
                  THEN Return(<<>>) /\ UNCHANGED <<chunks, stray>>
                  ELSE IF total_tokens <= config.chunk_size
                  THEN /\ chunks' = <<processed>>
                       /\ Return(<<processed>>)
                       /\ UNCHANGED stray
                  ELSE /\ chunks' = <<>>
                       /\ pc' = "tok_loop"
                       /\ stray' \in StrayChoices
                       /\ UNCHANGED result

Span(loop, unit, start, len, advance, next) ==
    [loop |-> loop, unit |-> unit, start |-> start, len |-> len,
     advance |-> advance, next |-> next]

\* chunking.c 194-285: one iteration of the while loop (and, when the loop
\* ends, the conversion of the list to the returned array)
tok_loop ==
    /\ pc = "tok_loop"
    /\ start_offset < Len(processed_content)
    /\ UNCHANGED <<envvars, mdvars, passvars, stray>>
    /\ LET content_len == Len(processed_content)
           end_offset == SegmentEnd(processed_content, start_offset,
                                    config.chunk_size, stray,
                                    pgedge_vectorizer_model)
           chunk_str == pnstrdup(CStr(Ptr(processed_content, start_offset, stray)),
                                 end_offset)
           advance == OverlapAdvance(chunk_str, end_offset, config.overlap,
                                     pgedge_vectorizer_model)
           moved == start_offset + advance
           next == IF moved >= content_len THEN moved
                   ELSE SkipWhitespace(processed_content, moved)
       IN /\ chunks' = Append(chunks, chunk_str)
          /\ spans' = Append(spans, Span("tok", 0, start_offset, end_offset,
                                         advance, next))
          /\ start_offset' = next
          /\ processed_content' = processed_content
          /\ IF next >= content_len
             THEN Return(chunks')
             ELSE pc' = "tok_loop" /\ UNCHANGED result

----------------------------------------------------------------------------
(* hybrid_chunking.c: chunk_hybrid, chunk_markdown and their passes *)

NULL_CHUNK == [content |-> NULL, token_count |-> 0, heading_context |-> NULL]

\* the entry without the fallback: every non-empty content is parsed
Enter_NoFallback(fn) ==
    /\ pc = fn
    /\ UNCHANGED <<envvars, tokvars, loopvars, passvars, elements, stray>>
    /\ frame' = fn
    /\ IF content = NULL \/ Len(content) = 0
       THEN Return(<<>>) /\ UNCHANGED <<likely_markdown, parser>>
       ELSE /\ likely_markdown' = is_likely_markdown(content)
            /\ UNCHANGED result
            /\ pc' = "parse" /\ parser' = ParserStart

\* hybrid_chunking.c 1122-1136 and 1069-1082: the guards, the markdown
\* test with its fallback, and the start of the parse
Enter(fn) ==
    /\ pc = fn
    /\ UNCHANGED <<envvars, tokvars, loopvars, passvars, elements, stray>>
    /\ frame' = fn
    /\ IF content = NULL \/ Len(content) = 0
       THEN Return(<<>>) /\ UNCHANGED <<likely_markdown, parser>>
       ELSE /\ likely_markdown' = is_likely_markdown(content)
            /\ UNCHANGED result
            /\ IF ~likely_markdown'
               THEN pc' = "chunk_by_tokens" /\ UNCHANGED parser
               ELSE pc' = "parse" /\ parser' = ParserStart

chunk_hybrid == Enter("chunk_hybrid")

chunk_markdown == Enter("chunk_markdown")

\* hybrid_chunking.c 234-482: one line of the parse
parse_line ==
    /\ pc = "parse"
    /\ parser.pos < Len(content)
    /\ parser' = ParseLine(content, parser)
    /\ UNCHANGED <<pc, envvars, tokvars, loopvars, passvars, frame,
                   likely_markdown, elements, stray, result>>

\* hybrid_chunking.c 484-506, then the caller: chunk_hybrid 1138-1166
\* (initial chunks, start of the split pass) or chunk_markdown 1084-1090
parse_end ==
    /\ pc = "parse"
    /\ parser.pos >= Len(content)
    /\ UNCHANGED <<envvars, tokvars, loopvars, frame, likely_markdown, parser,
                   pending, stray>>
    /\ elements' = ParseFinish(parser).elements
    /\ lc' = 1
    /\ IF Len(elements') = 0
       THEN Return(<<>>) /\ UNCHANGED <<hchunks, refined_chunks, out_chunks>>
       ELSE IF frame = "chunk_hybrid"
       THEN /\ hchunks' = InitialChunks(elements')
            /\ refined_chunks' = <<>>
            /\ UNCHANGED out_chunks
            /\ IF Len(hchunks') = 0 THEN Return(<<>>)
               ELSE pc' = "split" /\ UNCHANGED result
       ELSE /\ pc' = "simple"
            /\ out_chunks' = <<>>
            /\ UNCHANGED <<hchunks, refined_chunks, result>>

\* the whitespace the loop of elements_to_chunks_simple skips (no '\r')
IsSpace3(c) == c \in {" ", "\t", "\n"}

RECURSIVE SkipWhitespace3(_, _)
SkipWhitespace3(buf, start) ==
    IF start < Len(buf) /\ IsSpace3(buf[start + 1])
    THEN SkipWhitespace3(buf, start + 1) ELSE start

\* a sub-chunk that forgets the heading context of its source
sub_chunk_NoContext(chunk, sub_content) == create_hybrid_chunk(sub_content, NULL)

\* hybrid_chunking.c 817-820: "Extract sub-chunk"
sub_chunk(chunk, sub_content) ==
    create_hybrid_chunk(sub_content, chunk.heading_context)

\* hybrid_chunking.c 776-790: one chunk of the split pass
split_chunk ==
    /\ pc = "split"
    /\ lc <= Len(hchunks)
    /\ UNCHANGED <<envvars, tokvars, mdvars, hchunks, out_chunks, pending,
                   result, spans>>
    /\ LET chunk == hchunks[lc] IN
       IF chunk.token_count <= config.chunk_size
       THEN /\ refined_chunks' = Append(refined_chunks, chunk)
            /\ lc' = lc + 1
            /\ UNCHANGED <<pc, start_offset, stray>>
       ELSE /\ start_offset' = 0
            /\ stray' \in StrayChoices
            /\ UNCHANGED refined_chunks
            /\ IF 0 < Len(chunk.content)
               THEN pc' = "split_loop" /\ UNCHANGED lc
               ELSE pc' = "split" /\ lc' = lc + 1

\* hybrid_chunking.c 792-836: one iteration of the loop over an oversized chunk
split_loop ==
    /\ pc = "split_loop"
    /\ UNCHANGED <<envvars, tokvars, mdvars, hchunks, out_chunks, pending, stray,
                   result>>
    /\ LET chunk == hchunks[lc]
           buf == chunk.content
           end_offset == SegmentEnd(buf, start_offset, config.chunk_size,
                                    stray, pgedge_vectorizer_model)
           sub_content == pnstrdup(CStr(Ptr(buf, start_offset, stray)), end_offset)
           next == SkipWhitespace(buf, start_offset + end_offset)
       IN /\ refined_chunks' = Append(refined_chunks, sub_chunk(chunk, sub_content))
          /\ spans' = Append(spans, Span("split", lc, start_offset, end_offset,
                                         end_offset, next))
          /\ start_offset' = next
          /\ IF next < Len(buf)
             THEN UNCHANGED <<pc, lc>>
             ELSE pc' = "split" /\ lc' = lc + 1

\* chunk_hybrid 1166-1177: the split pass returned; start the merge pass
split_done ==
    /\ pc = "split"
    /\ lc > Len(hchunks)
    /\ pc' = "merge"
    /\ lc' = 1
    /\ pending' = NULL_CHUNK
    /\ out_chunks' = <<>>
    /\ UNCHANGED <<envvars, tokvars, loopvars, mdvars, hchunks, refined_chunks,
                   stray, result>>

\* hybrid_chunking.c 858-922: one chunk of the merge pass
merge_chunk ==
    /\ pc = "merge"
    /\ lc <= Len(refined_chunks)
    /\ lc' = lc + 1
    /\ UNCHANGED <<pc, envvars, tokvars, loopvars, mdvars, hchunks,
                   refined_chunks, stray, result>>
    /\ LET chunk == refined_chunks[lc]
           min_tokens == MinTokens(config.chunk_size)
           max_tokens == config.chunk_size
       IN IF pending = NULL_CHUNK
          THEN IF chunk.token_count >= min_tokens
               THEN out_chunks' = Append(out_chunks, chunk) /\ UNCHANGED pending
               ELSE pending' = chunk /\ UNCHANGED out_chunks
          ELSE IF CanMerge(pending, chunk, max_tokens)
               THEN pending' = MergeInto(pending, chunk) /\ UNCHANGED out_chunks
               ELSE IF chunk.token_count >= min_tokens
               THEN /\ out_chunks' = out_chunks \o <<pending, chunk>>
                    /\ pending' = NULL_CHUNK
               ELSE /\ out_chunks' = Append(out_chunks, pending)
                    /\ pending' = chunk

\* the end of the merge pass without the flush of the pending chunk
merge_done_NoFlush ==
    /\ pc = "merge"
    /\ lc > Len(refined_chunks)
    /\ out_chunks' = out_chunks
    /\ pending' = NULL_CHUNK
    /\ Return(RenderAll(out_chunks'))
    /\ UNCHANGED <<envvars, tokvars, loopvars, mdvars, hchunks, refined_chunks, lc,
                   stray>>

\* hybrid_chunking.c 924-928, then chunk_hybrid 1182-1223: flush and render
merge_done ==
    /\ pc = "merge"
    /\ lc > Len(refined_chunks)
    /\ out_chunks' = IF pending # NULL_CHUNK THEN Append(out_chunks, pending)
                     ELSE out_chunks
    /\ pending' = NULL_CHUNK
    /\ Return(RenderAll(out_chunks'))
    /\ UNCHANGED <<envvars, tokvars, loopvars, mdvars, hchunks, refined_chunks, lc,
                   stray>>

\* one element of elements_to_chunks_simple, with an element that fits merged
\* into the chunk before it when the two fit together
simple_elem_Merging ==
    /\ pc = "simple"
    /\ lc <= Len(elements)
    /\ UNCHANGED <<envvars, tokvars, mdvars, hchunks, refined_chunks, pending,
                   result, spans>>
    /\ LET elem == elements[lc]
           chunk == create_hybrid_chunk(elem.content, elem.heading_context)
       IN
       IF IsSkipped(elem)
       THEN lc' = lc + 1 /\ UNCHANGED <<pc, out_chunks, start_offset, stray>>
       ELSE IF elem.token_count > config.chunk_size
       THEN /\ start_offset' = 0
            /\ stray' \in StrayChoices
            /\ UNCHANGED out_chunks
            /\ IF 0 < Len(elem.content)
               THEN pc' = "simple_loop" /\ UNCHANGED lc
               ELSE pc' = "simple" /\ lc' = lc + 1
       ELSE /\ out_chunks' =
                 IF /\ out_chunks # <<>>
                    /\ CanMerge(out_chunks[Len(out_chunks)], chunk, config.chunk_size)
                 THEN [out_chunks EXCEPT ![Len(out_chunks)] = MergeInto(@, chunk)]
                 ELSE Append(out_chunks, chunk)
            /\ lc' = lc + 1
            /\ UNCHANGED <<pc, start_offset, stray>>

\* hybrid_chunking.c 951-1011: one element of elements_to_chunks_simple
simple_elem ==
    /\ pc = "simple"
    /\ lc <= Len(elements)
    /\ UNCHANGED <<envvars, tokvars, mdvars, hchunks, refined_chunks, pending,
                   result, spans>>
    /\ LET elem == elements[lc] IN
       IF IsSkipped(elem)
       THEN lc' = lc + 1 /\ UNCHANGED <<pc, out_chunks, start_offset, stray>>
       ELSE IF elem.token_count > config.chunk_size
       THEN /\ start_offset' = 0
            /\ stray' \in StrayChoices
            /\ UNCHANGED out_chunks
            /\ IF 0 < Len(elem.content)
               THEN pc' = "simple_loop" /\ UNCHANGED lc
               ELSE pc' = "simple" /\ lc' = lc + 1
       ELSE /\ out_chunks' = Append(out_chunks,
                   create_hybrid_chunk(elem.content, elem.heading_context))
            /\ lc' = lc + 1
            /\ UNCHANGED <<pc, start_offset, stray>>

\* hybrid_chunking.c 967-1003: one iteration of the loop over a large element
simple_loop ==
    /\ pc = "simple_loop"
    /\ UNCHANGED <<envvars, tokvars, mdvars, hchunks, refined_chunks, pending,
                   stray, result>>
    /\ LET elem == elements[lc]
           buf == elem.content
           end_offset == SegmentEnd(buf, start_offset, config.chunk_size,
                                    stray, pgedge_vectorizer_model)
           sub_content == pnstrdup(CStr(Ptr(buf, start_offset, stray)), end_offset)
           next == SkipWhitespace3(buf, start_offset + end_offset)
       IN /\ out_chunks' = Append(out_chunks,
                 create_hybrid_chunk(sub_content, elem.heading_context))
          /\ spans' = Append(spans, Span("simple", lc, start_offset, end_offset,
                                         end_offset, next))
          /\ start_offset' = next
          /\ IF next < Len(buf)
             THEN UNCHANGED <<pc, lc>>
             ELSE pc' = "simple" /\ lc' = lc + 1

\* hybrid_chunking.c 1013-1051: render the chunks and return
simple_done ==
    /\ pc = "simple"
    /\ lc > Len(elements)
    /\ Return(RenderAll(out_chunks))
    /\ UNCHANGED <<envvars, tokvars, loopvars, mdvars, passvars, stray>>

----------------------------------------------------------------------------
(* tokenizer.c: its functions called on their own *)

\* the locals the chunkers keep, which a tokenizer function leaves alone
chunkervars == <<content, config, pgedge_vectorizer_strip_non_ascii,
                 pgedge_vectorizer_model, sqlvars, tokvars, loopvars, mdvars,
                 passvars, stray, result, workervars>>

BreakCall(text, target_offset, max_offset) ==
    [fn |-> "find_good_break_point", text |-> text,
     target_offset |-> target_offset, max_offset |-> max_offset]

\* tokenizer.c 132-174: find_good_break_point(text, target_offset, max_offset)
call_find_good_break_point ==
    /\ pc = "find_good_break_point"
    /\ call' = [fn |-> call.fn, text |-> call.text,
                target_offset |-> call.target_offset,
                max_offset |-> call.max_offset,
                ret |-> find_good_break_point(call.text, call.target_offset,
                                              call.max_offset)]
    /\ pc' = "done"
    /\ UNCHANGED chunkervars

OffsetCall(text, target_tokens) ==
    [fn |-> "get_char_offset_for_tokens", text |-> text,
     target_tokens |-> target_tokens]

\* tokenizer.c 102-125: get_char_offset_for_tokens(text, target_tokens,
\* model).  The product that overflows is undefined: the build either wraps
\* it around or carries on with a budget no text exhausts.
call_get_char_offset_for_tokens ==
    /\ pc = "get_char_offset_for_tokens"
    /\ \E ret \in {get_char_offset_for_tokens(call.text, call.target_tokens,
                                               pgedge_vectorizer_model)}
                   \cup (IF call.text # NULL /\ Overflows(call.target_tokens)
                         THEN {ScanChars(call.text, 0, 0, INT_MAX)} ELSE {}) :
          call' = [fn |-> call.fn, text |-> call.text,
                   target_tokens |-> call.target_tokens, ret |-> ret]
    /\ pc' = "done"
    /\ UNCHANGED chunkervars

----------------------------------------------------------------------------
(* worker.c: the background workers and the embedding queue *)

\* the chunkers do not run while the workers do
enginevars == <<pc, content, config, pgedge_vectorizer_strip_non_ascii,
                pgedge_vectorizer_model, sqlvars, call, tokvars, loopvars,
                mdvars, passvars, stray, result>>

\* a row of pgedge_vectorizer.queue joined with the chunk row it names:
\* next_retry_at is kept as the minutes left until it (0: NULL or passed),
\* backoff is the history of the delays the row was given
QueueRow(chunk_table, max_attempts) ==
    [status |-> "pending", attempts |-> 0, max_attempts |-> max_attempts,
     next_retry_at |-> 0, backoff |-> <<>>, chunk_table |-> chunk_table,
     embedding |-> FALSE]

\* the chunk tables that exist and take the vector
ChunkTables == {"doc_chunks"}

\* worker.c 339-342: the locals of a worker outside process_queue_batch;
\* tx holds the rows its open transaction has written, failed the rows it
\* has counted a failed attempt for
IdleWorker ==
    [pc |-> "idle", queue_ids |-> <<>>,
     attempts |-> <<>>, max_attempts |-> <<>>, effective_batch_size |-> 0,
     batch_start |-> 0, i |-> 0, tx |-> <<>>, failed |-> {}]

Range(seq) == {seq[k] : k \in 1..Len(seq)}

\* a transaction is open between the SELECT and the commit or abort
InTransaction(w) == workers[w].pc \in {"provider", "generate", "update", "commit"}

\* the row lock FOR UPDATE takes, held to the end of the transaction
LockedBy(w, id) == InTransaction(w) /\ id \in Range(workers[w].queue_ids)

Locked(id) == \E w \in DOMAIN workers : LockedBy(w, id)

\* ORDER BY attempts DESC, created_at (ids are given in creation order)
RECURSIVE OrderRows(_)
OrderRows(S) ==
    IF S = {} THEN <<>>
    ELSE LET first == CHOOSE id \in S : \A o \in S :
                         \/ queue[id].attempts > queue[o].attempts
                         \/ queue[id].attempts = queue[o].attempts /\ id <= o
         IN <<first>> \o OrderRows(S \ {first})

\* the rows the SELECT of a worker returns, locks skipped
SelectedIgnoringLocks(batch_size) ==
    LET S == {id \in DOMAIN queue : /\ queue[id].status = "pending"
                                    /\ queue[id].next_retry_at = 0}
        rows == OrderRows(S)
    IN  SubSeq(rows, 1, IF Len(rows) < batch_size THEN Len(rows) ELSE batch_size)

\* worker.c 347-357: WHERE status = 'pending' AND (next_retry_at IS NULL OR
\* next_retry_at <= NOW()) ORDER BY ... LIMIT batch_size FOR UPDATE SKIP LOCKED
Selected(batch_size) ==
    LET S == {id \in DOMAIN queue : /\ queue[id].status = "pending"
                                    /\ queue[id].next_retry_at = 0
                                    /\ ~Locked(id)}
        rows == OrderRows(S)
    IN  SubSeq(rows, 1, IF Len(rows) < batch_size THEN Len(rows) ELSE batch_size)

\* guc.c 118-128: pgedge_vectorizer.batch_size (1..100, default 10), set low
\* enough for two workers to share a short queue
pgedge_vectorizer_batch_size == 2

\* worker.c 279-316 and 339-422: one turn of the main loop up to the rows
\* marked 'processing': extension check, wait, SELECT, extraction, marking
process_queue_batch(w) ==
    /\ workers[w].pc = "idle"
    /\ UNCHANGED enginevars
    /\ LET ids == Selected(pgedge_vectorizer_batch_size)
           n_items == Len(ids)
           attempts == [k \in 1..n_items |-> queue[ids[k]].attempts]
           has_retries == \E k \in 1..n_items : attempts[k] > 0
       IN workers' = [workers EXCEPT ![w] =
             IF n_items = 0
             THEN [IdleWorker EXCEPT !.pc = "commit"]
             ELSE [pc |-> "provider",
                   queue_ids |-> ids, attempts |-> attempts,
                   max_attempts |-> [k \in 1..n_items |->
                                        queue[ids[k]].max_attempts],
                   effective_batch_size |->
                       IF has_retries /\ n_items > 1 THEN 1 ELSE n_items,
                   batch_start |-> 0, i |-> 0,
                   tx |-> [id \in Range(ids) |->
                             [queue[id] EXCEPT !.status = "processing"]],
                   failed |-> {}]]
    /\ UNCHANGED <<queue, provider>>

\* the handler that commits what the failed transaction wrote
Abort_Committing(w) ==
    /\ queue' = [id \in DOMAIN queue |->
                   IF id \in DOMAIN workers[w].tx THEN workers[w].tx[id]
                   ELSE queue[id]]
    /\ workers' = [workers EXCEPT ![w] = IdleWorker]

\* worker.c 306-321: PG_CATCH of the main loop: AbortCurrentTransaction
\* undoes every write of the transaction and the loop goes on
Abort(w) ==
    /\ queue' = queue
    /\ workers' = [workers EXCEPT ![w] = IdleWorker]

\* worker.c 424-436: get_current_provider, provider->init
get_current_provider(w) ==
    /\ workers[w].pc = "provider"
    /\ UNCHANGED enginevars
    /\ UNCHANGED provider
    /\ IF provider.init_ok
       THEN /\ workers' = [workers EXCEPT ![w].pc = "generate"]
            /\ UNCHANGED queue
       ELSE Abort(w)

\* worker.c 530-551 and 488-500: the row after a failed attempt:
\* "attempts = attempts + 1", failed or pending with a next_retry_at
RetryOrFail(row, attempts, max_attempts) ==
    IF attempts + 1 >= max_attempts
    THEN [row EXCEPT !.status = "failed", !.attempts = @ + 1,
                     !.next_retry_at = 0]
    ELSE [row EXCEPT !.status = "pending", !.attempts = @ + 1,
                     !.next_retry_at = row.attempts + 1,
                     !.backoff = Append(@, row.attempts + 1)]

\* worker.c 439: the loop "batch_start += effective_batch_size" moves on
NextBatch(wk) ==
    LET batch_start == wk.batch_start + wk.effective_batch_size
    IN  [wk EXCEPT !.batch_start = batch_start, !.i = 0,
                   !.pc = IF batch_start < Len(wk.queue_ids)
                          THEN "generate" ELSE "commit"]

BatchEnd(wk) ==
    IF wk.batch_start + wk.effective_batch_size > Len(wk.queue_ids)
    THEN Len(wk.queue_ids)
    ELSE wk.batch_start + wk.effective_batch_size

\* worker.c 439-451 and 516-556: provider->generate_batch on one batch; on
\* failure every row of the batch is set back or failed
generate_batch(w) ==
    /\ workers[w].pc = "generate"
    /\ UNCHANGED enginevars
    /\ UNCHANGED <<queue, provider>>
    /\ LET wk == workers[w]
           batch == (wk.batch_start + 1)..BatchEnd(wk)
       IN \E embeddings \in {"vectors", "NULL"} :
            IF embeddings # "NULL"
            THEN workers' = [workers EXCEPT ![w].pc = "update", ![w].i = 0]
            ELSE workers' = [workers EXCEPT ![w] =
                    NextBatch([wk EXCEPT
                       !.tx = [id \in DOMAIN wk.tx |->
                                 IF \E idx \in batch : wk.queue_ids[idx] = id
                                 THEN LET idx == CHOOSE k \in batch :
                                                    wk.queue_ids[k] = id
                                      IN RetryOrFail(wk.tx[id], wk.attempts[idx],
                                                     wk.max_attempts[idx])
                                 ELSE wk.tx[id]],
                       !.failed = @ \cup {wk.queue_ids[idx] : idx \in batch}])]

\* worker.c 453-514 and 578-606: update_embedding and the 'completed' mark
\* for one row of the batch; an error is caught, the row is set back or
\* failed, and the error is thrown again (to the handler of the main loop)
update_embedding(w) ==
    /\ workers[w].pc = "update"
    /\ UNCHANGED enginevars
    /\ UNCHANGED provider
    /\ LET wk == workers[w]
           idx == wk.batch_start + wk.i + 1
           id == wk.queue_ids[idx]
       IN IF wk.tx[id].chunk_table \in ChunkTables
          THEN /\ UNCHANGED queue
               /\ LET done == [wk EXCEPT !.tx[id].embedding = TRUE,
                                         !.tx[id].status = "completed",
                                         !.i = @ + 1]
                  IN workers' = [workers EXCEPT ![w] =
                        IF done.batch_start + done.i >= BatchEnd(done)
                        THEN NextBatch(done) ELSE done]
          ELSE Abort(w)

\* worker.c 568-570: SPI_finish, CommitTransactionCommand
CommitTransactionCommand(w) ==
    /\ workers[w].pc = "commit"
    /\ UNCHANGED enginevars
    /\ queue' = [id \in DOMAIN queue |->
                   IF id \in DOMAIN workers[w].tx THEN workers[w].tx[id]
                   ELSE queue[id]]
    /\ workers' = [workers EXCEPT ![w] =
                     [IdleWorker EXCEPT !.pc = "cleanup"]]
    /\ UNCHANGED provider

\* worker.c 611-651: skipped (disabled, or done within the hour), or the
\* completed rows that are old enough are deleted
cleanup_completed_items(w) ==
    /\ workers[w].pc = "cleanup"
    /\ UNCHANGED enginevars
    /\ \E old \in SUBSET {id \in DOMAIN queue : queue[id].status = "completed"} :
          queue' = [id \in DOMAIN queue \ old |-> queue[id]]
    /\ workers' = [workers EXCEPT ![w].pc = "idle"]
    /\ UNCHANGED provider

\* a minute passes: every next_retry_at is a minute nearer
Elapse(row) ==
    [row EXCEPT !.next_retry_at = IF @ > 0 THEN @ - 1 ELSE 0]

minute_passes ==
    /\ \E id \in DOMAIN queue : queue[id].next_retry_at > 0
    /\ UNCHANGED enginevars
    /\ queue' = [id \in DOMAIN queue |-> Elapse(queue[id])]
    /\ workers' = [w \in DOMAIN workers |->
                     [workers[w] EXCEPT !.tx =
                         [id \in DOMAIN workers[w].tx |->
                             Elapse(workers[w].tx[id])]]]
    /\ UNCHANGED provider

WorkerStep(w) ==
    \/ process_queue_batch(w)
    \/ get_current_provider(w)
    \/ generate_batch(w)
    \/ update_embedding(w)
    \/ CommitTransactionCommand(w)
    \/ cleanup_completed_items(w)

----------------------------------------------------------------------------
(* Specifications *)

\* the GUCs at their boot values (guc.c 172-192)
InitGucs ==
    /\ pgedge_vectorizer_default_chunk_strategy = STR_token_based
    /\ pgedge_vectorizer_default_chunk_size = DEFAULT_CHUNK_SIZE
    /\ pgedge_vectorizer_default_chunk_overlap = DEFAULT_CHUNK_OVERLAP

NoArgs == Args({0, 1, 2, 3}, <<>>, <<>>, 0, 0)

\* no queue and no background worker: the chunkers called on their own
NoWorkers ==
    /\ queue = <<>>
    /\ workers = <<>>
    /\ provider = [init_ok |-> TRUE]

\* everything but the call: no pass has run yet
InitLocals ==
    /\ pgedge_vectorizer_model = Model
    /\ processed_content = <<>>
    /\ start_offset = 0
    /\ chunks = <<>>
    /\ spans = <<>>
    /\ frame = "none"
    /\ likely_markdown = FALSE
    /\ parser = ParserStart
    /\ elements = <<>>
    /\ hchunks = <<>>
    /\ refined_chunks = <<>>
    /\ out_chunks = <<>>
    /\ lc = 1
    /\ pending = NULL_CHUNK
    /\ stray = 0
    /\ result = <<>>

\* no tokenizer function called on its own
NoCall == [fn |-> "none"]

InitCommon ==
    /\ InitLocals
    /\ NoWorkers
    /\ InitGucs
    /\ args = NoArgs
    /\ call = NoCall

\* chunk_by_tokens called on flat text
InitTok ==
    /\ InitCommon
    /\ pc = "chunk_by_tokens"
    /\ content \in TokTexts(MaxPieces) \cup {NULL}
    /\ config \in {Config("TOKEN", n, o) : n \in 0..MaxChunkSize, o \in 0..MaxOverlap}
    /\ pgedge_vectorizer_strip_non_ascii \in BOOLEAN

NextTok == chunk_by_tokens \/ tok_loop

SpecTok == InitTok /\ [][NextTok]_vars

\* the markdown test of chunk_hybrid on short byte strings
DetectAlphabet == {"#", " ", "\n", "-", "a", "|", "[", "]", "(", ">", BACKTICK}

RECURSIVE Strings(_, _)
Strings(A, n) ==
    IF n = 0 THEN {<<>>}
    ELSE LET prev == Strings(A, n - 1)
         IN prev \cup {Append(p, a) : p \in prev, a \in A}

EX_HEADING_BODY ==
    <<"#", " ", "H", "e", "a", "d", "i", "n", "g", "\n", "\n", "B", "o", "d",
      "y", " ", "t", "e", "x", "t">>
EX_PLAIN ==
    <<"p", "l", "a", "i", "n", " ", "s", "e", "n", "t", "e", "n", "c", "e",
      " ", "w", "i", "t", "h", " ", "n", "o", " ", "m", "a", "r", "k", "u",
      "p">>
EX_LIST_ITEM == <<"-", " ", "i", "t", "e", "m">>

\* ordered list items, alone and with a second indicator
OrderedExamples == { <<"1", ".", " ", "a">>, <<"1", ".", "a">>, <<"1", ".", " ">>,
                     <<"1", "2", ")", " ", "a", "\n", ">", " ", "b">>,
                     <<"a", " ", "1", ".", " ", "b", "\n", "|", "c", "|">>,
                     <<"1", ".", "\t", "a", "\n", "[", "b", "]", "(", "c", ")">> }

\* the byte strings of at most n bytes
DetectTexts(n) == Strings(DetectAlphabet, n)
                  \cup {EX_HEADING_BODY, EX_PLAIN, EX_LIST_ITEM}
                  \cup OrderedExamples

InitDetect ==
    /\ InitCommon
    /\ pc = "chunk_hybrid"
    /\ content \in DetectTexts(MaxDetectLen)
    /\ config = Config("HYBRID", DEFAULT_CHUNK_SIZE, DEFAULT_CHUNK_OVERLAP)
    /\ pgedge_vectorizer_strip_non_ascii = TRUE

NextDetect == chunk_hybrid

SpecDetect == InitDetect /\ [][NextDetect]_vars

\* the parser on documents of heading and text lines
ParseLines == { <<"#", " ", "A">>, <<"#", "#", " ", "B">>, <<"#", " ", "C">>,
                <<"#", "#", "#", " ", "D">>, <<"X">>, <<>>,
                <<BACKTICK, BACKTICK, BACKTICK>>, <<"#">> }

RECURSIVE Documents(_, _)
Documents(L, n) ==
    IF n = 0 THEN {}
    ELSE LET prev == Documents(L, n - 1)
         IN L \cup prev \cup {p \o <<"\n">> \o q : p \in prev, q \in L}

EX_BREADCRUMB ==
    <<"#", " ", "A", "\n", "\n", "#", "#", " ", "B", "\n", "\n", "X", "\n",
      "\n", "#", " ", "C", "\n", "\n", "Y">>

\* the documents of at most n lines
ParseTexts(n) == Documents(ParseLines, n) \cup {EX_BREADCRUMB}

InitParse ==
    /\ InitCommon
    /\ pc = "chunk_hybrid"
    /\ content \in ParseTexts(MaxLines)
    /\ config = Config("HYBRID", DEFAULT_CHUNK_SIZE, DEFAULT_CHUNK_OVERLAP)
    /\ pgedge_vectorizer_strip_non_ascii = TRUE

NextParse == chunk_hybrid \/ parse_line \/ parse_end

SpecParse == InitParse /\ [][NextParse]_vars

\* chunk_hybrid on documents of blocks separated by blank lines
\* a block whose first break lies well past a small target
EX_LONG ==
    <<"x", "x", "x", "x", "x", "x", "x", "x", "x", "x", "x", "x",
      "x", "x", "x", "x", "x", "x", "x", "x", "x", "x", "x", "x",
      "x", "x", "x", "x", "x", "x", " ", "y", "y", "y", "y", "y",
      "y", "y", "y", "y", "y", "y", "y", "y", "y", "y", "y">>

LongTokens == count_tokens(EX_LONG, Model)

RefineBlocks == { <<"#", " ", "A">>, <<"#", " ", "B">>, <<"a">>,
                  <<"a", "b", "c", "d">>,
                  <<"a", "b", "c", "d", " ", "e", "f", "g", "h", " ", "i", "j">>,
                  <<"a", "b", "c", "d", " ", " ", " ", " ", " ", " ", " ", "e">>,
                  <<"a", "b", "c", "d", " ", " ", " ", " ", " ", " ", " ", " ">> }

\* the long block under a heading, alone, followed and preceded (the heading
\* makes each of them markdown for is_likely_markdown)
LongExamples == { <<"#", " ", "A", "\n", "\n">> \o EX_LONG,
                  <<"#", " ", "A", "\n", "\n">> \o EX_LONG \o <<"\n", "\n", "a">>,
                  <<"a", "\n", "\n", "#", " ", "A", "\n", "\n">> \o EX_LONG }

RefineSizes == (1..MaxRefineSize) \cup {LongTokens \div 3, LongTokens}

RECURSIVE BlockDocs(_, _)
BlockDocs(B, n) ==
    IF n = 0 THEN {}
    ELSE LET prev == BlockDocs(B, n - 1)
         IN B \cup prev \cup {p \o <<"\n", "\n">> \o q : p \in prev, q \in B}

\* the documents of at most n blocks that chunk_hybrid takes for markdown,
\* and the long examples
RefineTexts(n) ==
    {d \in BlockDocs(RefineBlocks, n) : is_likely_markdown(d)} \cup LongExamples

InitRefine ==
    /\ InitCommon
    /\ pc = "chunk_hybrid"
    /\ content \in RefineTexts(MaxBlocks)
    /\ config \in {Config("HYBRID", n, 0) : n \in RefineSizes}
    /\ pgedge_vectorizer_strip_non_ascii = TRUE

NextRefine ==
    \/ chunk_hybrid \/ parse_line \/ parse_end
    \/ split_chunk \/ split_loop \/ split_done
    \/ merge_chunk \/ merge_done

SpecRefine == InitRefine /\ [][NextRefine]_vars

\* the SQL entry point and parse_chunk_strategy on names in every case
pg_toupper(ch) ==
    IF \E k \in 1..26 : LowerLetters[k] = ch
    THEN UpperLetters[CHOOSE k \in 1..26 : LowerLetters[k] = ch]
    ELSE ch

UpperCase(s) == [i \in 1..Len(s) |-> pg_toupper(s[i])]
Capitalised(s) == [i \in 1..Len(s) |-> IF i = 1 THEN pg_toupper(s[i]) ELSE s[i]]
MixedCase(s) == [i \in 1..Len(s) |-> IF i % 2 = 0 THEN pg_toupper(s[i]) ELSE s[i]]

StrategyNames == {STR_token_based, STR_token, STR_semantic, STR_markdown,
                  STR_sentence, STR_recursive, STR_hybrid}

\* names no strategy has
OtherNames == { <<>>, <<"x">>, STR_token \o <<"s">>, STR_token \o <<"_">>,
                <<"t", "o", "k", "e", "n", " ", "b", "a", "s", "e", "d">>,
                <<"T", "o", "k", "e", "n", "-", "B", "a", "s", "e", "d">>,
                <<"h", "y", "b", "r", "i">>, <<" ">> \o STR_hybrid,
                STR_markdown \o <<" ">>, STR_semantic \o <<"s">>,
                <<"S", "E", "N", "T", "E", "N", "C", "E", "S">>,
                <<"r", "e", "c", "u", "r", "s", "e">> }

SqlNames ==
    UNION {{n, UpperCase(n), Capitalised(n), MixedCase(n)} : n \in StrategyNames}
    \cup OtherNames

SqlContents == {<<>>, <<"a", "b">>, <<"#", " ", "A">>}

\* per-call sizes and overlaps around the ends of the GUC ranges
SqlSizes == {-1, 49, 50, 2000, 2001}
SqlOverlaps == {-1, 0, 500, 501}

\* settings the GUC machinery accepts (guc.c 172-192)
GucStrategies == {STR_token_based, STR_hybrid, UpperCase(STR_markdown), <<"x">>}
GucSizes == {50, DEFAULT_CHUNK_SIZE, 2000}
GucOverlaps == {0, DEFAULT_CHUNK_OVERLAP, 500}

\* no config built yet
UNSET_CONFIG == Config("UNSET", 0, 0)

InitSql ==
    /\ InitLocals
    /\ NoWorkers
    /\ call = NoCall
    /\ content = NULL
    /\ config = UNSET_CONFIG
    /\ pgedge_vectorizer_strip_non_ascii = TRUE
    /\ pc \in {"pgedge_vectorizer_chunk_text_sql", "parse_chunk_strategy"}
    /\ IF pc = "parse_chunk_strategy"
       THEN /\ InitGucs
            /\ args \in {Args({0, 2, 3}, <<>>, n, 0, 0) : n \in SqlNames \cup {NULL}}
       ELSE /\ pgedge_vectorizer_default_chunk_strategy \in GucStrategies
            /\ pgedge_vectorizer_default_chunk_size \in GucSizes
            /\ pgedge_vectorizer_default_chunk_overlap \in GucOverlaps
            /\ args \in
                 {Args({0, 1, 2, 3}, <<>>, <<>>, 0, 0)}
                 \cup {Args({1, 2, 3}, c, <<>>, 0, 0) : c \in SqlContents}
                 \cup {Args({2, 3}, <<"a", "b">>, n, 0, 0) : n \in SqlNames}
                 \cup {Args({1, 3}, c, <<>>, n, 0) : c \in SqlContents, n \in SqlSizes}
                 \cup {Args({1, 2}, c, <<>>, 0, o) : c \in SqlContents, o \in SqlOverlaps}
                 \cup {Args({}, <<"#", " ", "A">>, n, k, o) :
                          n \in {STR_hybrid, UpperCase(STR_sentence), <<"x">>},
                          k \in SqlSizes, o \in SqlOverlaps}

NextSql == pgedge_vectorizer_chunk_text_sql \/ call_parse_chunk_strategy \/ chunk_text

SpecSql == InitSql /\ [][NextSql]_vars

\* find_good_break_point on its own: short byte strings and texts longer
\* than the search window, entered at their start and further in
MaxBreakLen == 3

BreakAlphabet == {"a", " ", "\n", "."}

Run(c, n) == [k \in 1..n |-> c]

\* a word break more than a window into the text
EX_FAR_BREAK == Run("a", 55) \o <<" ">> \o Run("a", 60)

\* one break of each tier, a window or more apart
EX_TIERS == Run("a", 10) \o <<" ">> \o Run("a", 19) \o <<".", " ">>
            \o Run("a", 68) \o <<"\n", "\n">> \o Run("a", 10)

BreakExamples == { <<"a", "b", "c", "d", " ", "e", "f", "g", "h", "i", " ", "j">>,
                   <<"a", " ", "b", ".", " ", "c", "\n", "\n", "d">>,
                   <<"a", "\n", "\n", "b", ".", " ", "c", " ", "d">>,
                   <<"a", "?", "\n", "b", " ", "c", "!", " ", "d">> }

\* the calls on the text that starts off bytes into buf
CallsAt(buf, off, Targets, Maxes) ==
    {BreakCall(Ptr(buf, off, pre), t, mx) :
        pre \in StrayChoices, t \in Targets, mx \in Maxes}

BreakCalls(n) ==
    UNION {CallsAt(buf, off, 0..(Len(buf) - off + 1), 0..(Len(buf) - off)) :
             buf \in Strings(BreakAlphabet, n) \cup BreakExamples,
             off \in 0..3}
    \cup UNION {CallsAt(buf, off, 0..(Len(buf) - off),
                        {Len(buf) - off, Len(buf) - off - 20}) :
                  buf \in {EX_FAR_BREAK, EX_TIERS}, off \in {0, 5}}

InitBreak ==
    /\ InitLocals
    /\ NoWorkers
    /\ InitGucs
    /\ args = NoArgs
    /\ content = NULL
    /\ config = UNSET_CONFIG
    /\ pgedge_vectorizer_strip_non_ascii = TRUE
    /\ pc = "find_good_break_point"
    /\ call \in {c \in BreakCalls(MaxBreakLen) : c.text.off <= Len(c.text.buf)}

NextBreak == call_find_good_break_point

SpecBreak == InitBreak /\ [][NextBreak]_vars

\* chunk_markdown on documents of lines of every kind
MaxKindLines == 3

FENCE_BACKTICKS == <<BACKTICK, BACKTICK, BACKTICK>>
FENCE_TILDES == <<"~", "~", "~">>

KindLines == { FENCE_BACKTICKS, FENCE_TILDES, <<"#", " ", "A">>, <<>>,
               <<"-", " ", "a">>, <<"-", " ", "b", "|", "c">>,
               <<"|", "d", "|", "e", "|">>, <<">", " ", "q">>,
               <<"-", "-", "-">>, <<"X">> }

Lines(seq) ==
    IF Len(seq) = 0 THEN <<>>
    ELSE LET joined == [i \in 1..Len(seq) |-> seq[i] \o <<"\n">>]
             F[i \in 0..Len(seq)] ==
                 IF i = 0 THEN <<>> ELSE F[i - 1] \o joined[i]
         IN SubSeq(F[Len(seq)], 1, Len(F[Len(seq)]) - 1)

\* a code block that holds a line of every kind; fences of both kinds
\* around text; list items with and without a '|'; blank lines inside and
\* outside a code block
KindExamples ==
    { Lines(<< <<"#", " ", "A">>, FENCE_BACKTICKS, <<>>, <<"#", " ", "B">>,
               <<"-", " ", "a">>, <<"|", "d", "|", "e", "|">>, <<"-", "-", "-">>,
               <<">", " ", "q">>, FENCE_BACKTICKS, <<"X">> >>),
      Lines(<< FENCE_BACKTICKS, <<"X">>, FENCE_TILDES, <<"#", " ", "A">>,
               FENCE_BACKTICKS, <<"X">> >>),
      Lines(<< FENCE_TILDES, <<"X">>, FENCE_BACKTICKS, <<"#", " ", "A">>,
               FENCE_TILDES, <<"X">> >>),
      Lines(<< <<"#", " ", "A">>, <<"-", " ", "a">>, <<"-", " ", "b", "|", "c">>,
               <<"-", " ", "a">>, <<"-", " ", "a">> >>),
      Lines(<< <<"-", " ", "b", "|", "c">>, <<"-", " ", "b", "|", "c">>,
               <<"|", "d", "|", "e", "|">>, <<"|", "d", "|", "e", "|">> >>),
      Lines(<< <<">", " ", "q">>, <<">", " ", "q">>, <<"-", " ", "a">>,
               <<"-", " ", "a">>, <<"X">>, <<"X">> >>),
      Lines(<< <<"X">>, <<>>, <<"X">>, FENCE_BACKTICKS, <<>>, <<"X">>,
               FENCE_BACKTICKS, <<>>, <<"#", " ", "A">> >>),
      Lines(<< FENCE_BACKTICKS, <<"X">>, FENCE_TILDES, <<>>, <<"X">>,
               FENCE_BACKTICKS >>) }

KindTexts(n) == Documents(KindLines, n) \cup KindExamples

InitKinds ==
    /\ InitCommon
    /\ pc = "chunk_markdown"
    /\ content \in KindTexts(MaxKindLines)
    /\ config = Config("MARKDOWN", DEFAULT_CHUNK_SIZE, DEFAULT_CHUNK_OVERLAP)
    /\ pgedge_vectorizer_strip_non_ascii = TRUE

NextKinds == chunk_markdown \/ parse_line \/ parse_end

SpecKinds == InitKinds /\ [][NextKinds]_vars

\* get_char_offset_for_tokens on its own: flat texts, targets around zero and
\* around the largest int whose product with 4 is an int
OffsetTargets == {-1, 0, 1, 2, 3, INT_MAX \div 4, INT_MAX \div 4 + 1,
                  (INT_MAX \div 2 + 1), INT_MAX}

InitOffset ==
    /\ InitLocals
    /\ NoWorkers
    /\ InitGucs
    /\ args = NoArgs
    /\ content = NULL
    /\ config = UNSET_CONFIG
    /\ pgedge_vectorizer_strip_non_ascii = TRUE
    /\ pc = "get_char_offset_for_tokens"
    /\ call \in {OffsetCall(text, t) :
                    text \in TokTexts(MaxPieces) \cup {NULL}, t \in OffsetTargets}

NextOffset == call_get_char_offset_for_tokens

SpecOffset == InitOffset /\ [][NextOffset]_vars

\* the two loops that cut a text into segments: chunk_by_tokens on flat
\* text, split_oversized_chunks inside chunk_hybrid
InitSegment == InitTok \/ InitRefine

NextSegment == NextTok \/ NextRefine

SpecSegment == InitSegment /\ [][NextSegment]_vars

\* the workers on a queue of pending rows
MaxItems == 3
MaxAttempts == 4

\* guc.c 28: the default of pgedge_vectorizer.num_workers
pgedge_vectorizer_num_workers == 2

\* the chunkers at rest
EngineIdle ==
    /\ InitLocals
    /\ InitGucs
    /\ args = NoArgs
    /\ call = NoCall
    /\ content = NULL
    /\ config = UNSET_CONFIG
    /\ pgedge_vectorizer_strip_non_ascii = TRUE
    /\ pc = "worker"

\* rows as they are enqueued (pending, no attempt made), with one
\* max_attempts for all and a chunk table that exists or does not
InitQueue(num_workers) ==
    /\ EngineIdle
    /\ \E max_attempts \in 1..MaxAttempts :
          queue \in [1..MaxItems ->
                       {QueueRow(t, max_attempts) :
                           t \in ChunkTables \cup {"gone_chunks"}}]
    /\ workers = [w \in 1..num_workers |-> IdleWorker]
    /\ provider \in {[init_ok |-> b] : b \in BOOLEAN}

InitWorkers == InitQueue(pgedge_vectorizer_num_workers)

NextWorkers ==
    \/ \E w \in DOMAIN workers : process_queue_batch(w)
    \/ \E w \in DOMAIN workers : get_current_provider(w)
    \/ \E w \in DOMAIN workers : generate_batch(w)
    \/ \E w \in DOMAIN workers : update_embedding(w)
    \/ \E w \in DOMAIN workers : CommitTransactionCommand(w)
    \/ \E w \in DOMAIN workers : cleanup_completed_items(w)
    \/ minute_passes

SpecWorkers == InitWorkers /\ [][NextWorkers]_vars

\* one worker that keeps polling (worker.c 277-326: the main loop waits on
\* its latch with a timeout and calls process_queue_batch again, errors are
\* caught and the loop goes on), and time that keeps passing
InitPolling == InitQueue(1)

SpecPolling ==
    /\ InitPolling
    /\ [][NextWorkers]_vars
    /\ WF_vars(WorkerStep(1))
    /\ WF_vars(minute_passes)

\* every entry point, every strategy
EX_TITLE == <<"#", " ", "T", "i", "t", "l", "e", "\n", "\n", "S", "h",
  "o", "r", "t", " ", "p", "a", "r", "a", ".">>

AllTexts == { NULL, <<>>, EX_TITLE, EX_BREADCRUMB, EX_HEADING_BODY, EX_LIST_ITEM,
              <<"a", "b", "c", "d", " ", "e", "f", "g", "h", " ", "i", "j">>,
              <<"<C3>", "<A9>">>,
              <<"a", "b", "<C3>", "<A9>", ".", " ", "c", "d", "\n", "\n", "e", "f">>,
              <<"#", " ", "A", "\n", "\n", "<C3>", "<A9>", " ", "b">>,
              <<"*", "*", "*", "\n", "#", " ", "A", "\n", "a", "b", "\n", "_", " ", "_",
                " ", "_", "\n", "c", "d">>,
              <<"#", " ", "A", "\n", BACKTICK, BACKTICK, BACKTICK, "\n", "-", "-", "-",
                "\n", BACKTICK, BACKTICK, BACKTICK, "\n", "-", " ", "-", " ", "-">>,
              <<"#", " ", "A", "\n", "\n", "a", "b", "c", "d", " ", "e", "f", "g", "h",
                " ", "i", "j">>,
              <<"-", " ", "a", "b", "c", "d", " ", "e", "f", "g", "h", "\n", "-", " ",
                "b", "|", "c">>,
              <<"a", "b", "\n", "\n", "#", " ", "A", "\n", "\n", "c", "d", "\n", "\n",
                "e", "f", "\n", "\n", "-", "-", "-", "\n", "\n", "#", " ", "B", "\n",
                "\n", "g", "h">>,
              <<"#", " ", "A", "\n", "\n", BACKTICK, BACKTICK, BACKTICK, "\n", "a", "b",
                "\n", "\n", "c", "d", " ", "e", "f", "g", "h", "\n", BACKTICK, BACKTICK,
                BACKTICK, "\n", "i">>,
              <<">", " ", "a", "b", "c", "d", "\t", " ", "e", "f", "g", "h", "\r", "\n",
                "\n", "i", "j">> }

Strategies == {"TOKEN", "SEMANTIC", "MARKDOWN", "SENTENCE", "RECURSIVE", "HYBRID"}

\* a config->strategy outside the enumeration
INVALID_STRATEGY == "INVALID"


AllConfigs(strategy) ==
    {Config(strategy, n, o) : n \in 0..MaxChunkSize, o \in 0..MaxOverlap}
    \cup {Config(strategy, DEFAULT_CHUNK_SIZE, DEFAULT_CHUNK_OVERLAP)}

StrategyOf(fn) ==
    CASE fn = "chunk_by_tokens" -> "TOKEN"
      [] fn = "chunk_hybrid" -> "HYBRID"
      [] fn = "chunk_markdown" -> "MARKDOWN"

Init ==
    /\ InitCommon
    /\ content \in AllTexts
    /\ pgedge_vectorizer_strip_non_ascii \in BOOLEAN
    /\ pc \in {"chunk_text", "chunk_by_tokens", "chunk_hybrid", "chunk_markdown"}
    /\ IF pc = "chunk_text"
       THEN config \in UNION {AllConfigs(st) :
                                 st \in Strategies \cup {INVALID_STRATEGY}}
       ELSE config \in AllConfigs(StrategyOf(pc))

Next ==
    \/ chunk_text \/ chunk_by_tokens \/ tok_loop
    \/ chunk_hybrid \/ chunk_markdown \/ parse_line \/ parse_end
    \/ split_chunk \/ split_loop \/ split_done
    \/ merge_chunk \/ merge_done
    \/ simple_elem \/ simple_loop \/ simple_done

Spec == Init /\ [][Next]_vars

----------------------------------------------------------------------------
(* Properties *)

HasNonAscii(text) == \E i \in 1..Len(text) : IsNonAscii(text[i])

\* a call of chunk_by_tokens on present content has returned
TokReturned ==
    /\ pc = "done"
    /\ frame = "none"
    /\ content # NULL

\* the text chunk_by_tokens measures: content after the ASCII-only filter when
\* pgedge_vectorizer.strip_non_ascii is on, content itself when it is off
Measured ==
    IF pgedge_vectorizer_strip_non_ascii THEN strip_non_ascii(content) ELSE content

\* C1 (as amended): when the measured text is non-empty and its token count
\* is at most chunk_size, chunk_by_tokens returns exactly one chunk, equal to
\* the measured text; when the measured text is empty it returns no chunk.
C1_SingleChunk ==
    TokReturned =>
        IF Len(Measured) = 0
        THEN result = <<>>
        ELSE count_tokens(Measured, pgedge_vectorizer_model) <= config.chunk_size
             => result = <<Measured>>

\* a filtered text that fits came back as the one chunk, and differs from content
C1_Witness ==
    /\ TokReturned
    /\ pgedge_vectorizer_strip_non_ascii
    /\ HasNonAscii(content)
    /\ Len(Measured) > 0
    /\ count_tokens(Measured, pgedge_vectorizer_model) <= config.chunk_size
    /\ result = <<Measured>>
    /\ result # <<content>>

\* C1 as stated: content whose own token count is at most chunk_size comes
\* back as exactly one chunk equal to content.
C1_Original ==
    (TokReturned
        /\ count_tokens(content, pgedge_vectorizer_model) <= config.chunk_size)
    => result = <<content>>

\* the buffer the running segmentation loop walks
LoopBuffer ==
    CASE pc = "tok_loop" -> processed_content
      [] pc = "split_loop" -> hchunks[lc].content
      [] pc = "simple_loop" -> elements[lc].content
      [] OTHER -> <<>>

InLoop == pc \in {"tok_loop", "split_loop", "simple_loop"}

Returned == pc \in {"done", "error"}

\* C2: every iteration of each of the three segmentation loops moves the start
\* offset strictly forward and never past the end of its buffer, whatever the
\* content, chunk_size and overlap; the distance to the end of the buffer is
\* then a variant of the loop, so each loop, and with it the call, ends.
C2_Progress ==
    [][InLoop => /\ start_offset' > start_offset
                 /\ start_offset' <= Len(LoopBuffer)]_vars

\* a call that went twice round the loop of split_oversized_chunks on one
\* chunk has returned
C2_Witness ==
    /\ pc = "done"
    /\ \E i \in 1..(Len(spans) - 1) :
          /\ spans[i].loop = "split"
          /\ spans[i + 1].loop = "split"
          /\ spans[i + 1].unit = spans[i].unit
          /\ spans[i + 1].start = spans[i].next
          /\ spans[i].next > spans[i].start

\* the call of the end-to-end example has returned
TitleReturned ==
    /\ pc = "done"
    /\ content = EX_TITLE
    /\ config = Config("HYBRID", DEFAULT_CHUNK_SIZE, DEFAULT_CHUNK_OVERLAP)

TITLE_CHUNK ==
    <<"[", "C", "o", "n", "t", "e", "x", "t", ":", " ", "#", " ", "T", "i",
      "t", "l", "e", "]", "\n", "\n", "#", " ", "T", "i", "t", "l", "e",
      "\n", "\n", "S", "h", "o", "r", "t", " ", "p", "a", "r", "a", ".">>

TITLE_CHUNK_AS_STATED ==
    <<"[", "C", "o", "n", "t", "e", "x", "t", ":", " ", "#", " ", "T", "i",
      "t", "l", "e", "]", "\n", "\n", "S", "h", "o", "r", "t", " ", "p", "a",
      "r", "a", ".">>

\* C3 (as amended): "# Title\n\nShort para." under Hybrid, chunk_size 400,
\* overlap 50 returns exactly one chunk, the context prefix followed by the
\* heading line, a blank line and the paragraph.
C3_EndToEnd == TitleReturned => result = <<TITLE_CHUNK>>

C3_Witness == TitleReturned /\ result = <<TITLE_CHUNK>>

\* C3 as stated: the one chunk is the context prefix followed by the
\* paragraph only.
C3_Original == TitleReturned => result = <<TITLE_CHUNK_AS_STATED>>

EmptyInput == content = NULL \/ Len(content) = 0

EntryPoints == {"chunk_text", "chunk_by_tokens", "chunk_hybrid", "chunk_markdown"}

\* C4: absent or empty content given to chunk_text, chunk_by_tokens,
\* chunk_hybrid or chunk_markdown, whatever the strategy, is answered at once
\* with the empty sequence, and never with an error.
C4_EmptyInput ==
    EmptyInput => /\ pc \in EntryPoints \cup {"done"}
                  /\ pc = "done" => result = <<>>

\* chunk_text returned on absent content under a strategy it would otherwise
\* reject
C4_Witness ==
    /\ content = NULL
    /\ config.strategy = INVALID_STRATEGY
    /\ pc = "done"
    /\ result = <<>>

\* the heading lines the parser has taken so far, in order
HeadingsOf(elems) == SelectSeq(elems, LAMBDA e : e.type = "HEADING")

\* heading i of hs is not followed by a heading of the same or a shallower level
Survives(hs, i) ==
    \A j \in (i + 1)..Len(hs) : hs[j].heading_level > hs[i].heading_level

\* the breadcrumb of the headings hs from level k on, joined to res
RECURSIVE Breadcrumb(_, _, _)
Breadcrumb(hs, k, res) ==
    IF k > MAX_HEADING_LEVELS THEN res
    ELSE LET S == {i \in 1..Len(hs) : hs[i].heading_level = k /\ Survives(hs, i)}
         IN IF S = {} THEN Breadcrumb(hs, k + 1, res)
            ELSE LET h == hs[CHOOSE i \in S : TRUE]
                     item == [j \in 1..k |-> "#"] \o <<" ">>
                             \o HeadingText(h.content, k)
                 IN Breadcrumb(hs, k + 1,
                               (IF res = <<>> THEN item
                                ELSE res \o <<" ", ">", " ">> \o item))

ExpectedContext(hs) ==
    LET res == Breadcrumb(hs, 1, <<>>) IN IF res = <<>> THEN NULL ELSE res

\* a step of the parser that takes a heading line
HeadingStep == Len(HeadingsOf(parser'.elements)) > Len(HeadingsOf(parser.elements))

TakenHeading == parser'.elements[Len(parser'.elements)]

ContextOf(text) ==
    {e.heading_context : e \in {elements[i] : i \in {j \in 1..Len(elements) :
                                                  elements[j].content = text}}}

\* C5: a heading line of level L empties every stack slot deeper than L, sets
\* slot L and leaves the shallower slots alone; the context after any sequence
\* of headings lists, by increasing level, exactly the headings not followed
\* by a later heading of the same or a shallower level; and in
\* "# A\n\n## B\n\nX\n\n# C\n\nY" X has context "# A > ## B", Y has "# C".
C5_HeadingStack ==
    /\ [][HeadingStep =>
            LET L == TakenHeading.heading_level IN
            \A k \in 1..MAX_HEADING_LEVELS :
                parser'.heading_stack[k] =
                    IF k > L THEN NULL
                    ELSE IF k = L THEN HeadingText(TakenHeading.content, L)
                    ELSE parser.heading_stack[k]]_vars
    /\ [](parser.current_heading_context
            = ExpectedContext(HeadingsOf(parser.elements)))
    /\ []((content = EX_BREADCRUMB /\ elements # <<>>) =>
            /\ ContextOf(<<"X">>)
                 = {<<"#", " ", "A", " ", ">", " ", "#", "#", " ", "B">>}
            /\ ContextOf(<<"Y">>) = {<<"#", " ", "C">>})

\* the example is parsed, and some document's deeper heading was dropped from
\* the context by a later shallower one
C5_Witness ==
    /\ content = EX_BREADCRUMB
    /\ elements # <<>>
    /\ ContextOf(<<"Y">>) = {<<"#", " ", "C">>}
    /\ Len(HeadingsOf(elements)) = 3

\* a step of merge_undersized_chunks that has a pending chunk and a current one
MergeStep == pc = "merge" /\ lc <= Len(refined_chunks) /\ pending # NULL_CHUNK

Current == refined_chunks[lc]

\* the step made one chunk of the pending and the current chunk
Combined ==
    /\ pending'.content = pending.content \o <<"\n", "\n">> \o Current.content
    /\ out_chunks' = out_chunks

\* the step kept them apart: the pending chunk went out as it was
KeptApart ==
    /\ Len(out_chunks') > Len(out_chunks)
    /\ out_chunks'[Len(out_chunks) + 1] = pending

ContextsAgree ==
    \/ pending.heading_context = NULL /\ Current.heading_context = NULL
    \/ /\ pending.heading_context # NULL
       /\ Current.heading_context # NULL
       /\ Len(pending.heading_context) = Len(Current.heading_context)
       /\ \A i \in 1..Len(pending.heading_context) :
             pending.heading_context[i] = Current.heading_context[i]

\* C6: with a pending chunk, merge_undersized_chunks joins it to the current
\* chunk exactly when their contexts are both absent or both present and
\* byte-equal and the two token counts add up to at most max_tokens; otherwise
\* the pending chunk goes out unjoined, so chunks of differing context are
\* never combined.
C6_MergeRule ==
    [][MergeStep =>
        IF ContextsAgree
           /\ pending.token_count + Current.token_count <= config.chunk_size
        THEN Combined /\ ~KeptApart
        ELSE KeptApart /\ ~Combined]_vars

\* two adjacent chunks small enough to be joined were kept apart because
\* their contexts differ
C6_Witness ==
    /\ pc = "merge"
    /\ lc >= 3
    /\ lc <= Len(refined_chunks) + 1
    /\ pending = refined_chunks[lc - 1]
    /\ out_chunks # <<>>
    /\ LET prev == out_chunks[Len(out_chunks)] IN
          /\ prev = refined_chunks[lc - 2]
          /\ prev.heading_context # pending.heading_context
          /\ prev.token_count + pending.token_count <= config.chunk_size

Abs(n) == IF n < 0 THEN -n ELSE n

\* C7 (as amended): the token count of a merged chunk is count_tokens of the
\* merged content (pending content, a blank line, current content), which is
\* within one of the sum of the two token counts.
C7_MergedCount ==
    [][(MergeStep /\ Combined) =>
        /\ pending'.token_count
             = count_tokens(pending.content \o <<"\n", "\n">> \o Current.content,
                            pgedge_vectorizer_model)
        /\ Abs(pending'.token_count
                - (pending.token_count + Current.token_count)) <= 1]_vars

\* two chunks were merged and the merged token count is not their sum
C7_Witness ==
    /\ pc = "merge"
    /\ lc >= 3
    /\ lc <= Len(refined_chunks) + 1
    /\ pending.content = refined_chunks[lc - 2].content \o <<"\n", "\n">>
                            \o refined_chunks[lc - 1].content
    /\ refined_chunks[lc - 2].heading_context = refined_chunks[lc - 1].heading_context
    /\ pending.token_count # refined_chunks[lc - 2].token_count
                               + refined_chunks[lc - 1].token_count

\* C7 as stated: the token count of a merged chunk is the sum of the two.
C7_Original ==
    [][(MergeStep /\ Combined) =>
        pending'.token_count = pending.token_count + Current.token_count]_vars

\* the split pass is through with chunk u of the initial chunks
SplitFinished(u) ==
    \/ pc \in {"split", "split_loop"} /\ u < lc
    \/ pc \in {"merge", "done"}

\* the chunks whose token count is three times max_tokens
Triples ==
    {u \in 1..Len(hchunks) : hchunks[u].token_count = 3 * config.chunk_size}

SubSpans(u) == SelectSeq(spans, LAMBDA sp : sp.loop = "split" /\ sp.unit = u)

\* the sub-chunks are slices of buf, in order, with nothing but skipped
\* whitespace between them and after the last
Covering(buf, S) ==
    /\ Len(S) >= 1
    /\ S[1].start = 0
    /\ S[Len(S)].next = Len(buf)
    /\ \A i \in 1..Len(S) :
          /\ S[i].len >= 1
          /\ S[i].start + S[i].len <= S[i].next
          /\ \A k \in (S[i].start + S[i].len + 1)..S[i].next :
                buf[k] \in {" ", "\t", "\n", "\r"}
          /\ i < Len(S) => S[i + 1].start = S[i].next

\* a break at most search_window - 1 bytes past the max_tokens * 4 target
WithinTolerance(S) ==
    \A i \in 1..Len(S) :
        S[i].len < chars_per_token * config.chunk_size + search_window

\* the step that adds a sub-chunk of such a chunk gives it that chunk's
\* context and the slice of its content
CarriesContext ==
    (pc = "split_loop" /\ lc \in Triples) =>
        LET sub == refined_chunks'[Len(refined_chunks')]
            sp == spans'[Len(spans')]
        IN /\ Len(refined_chunks') = Len(refined_chunks) + 1
           /\ sub.heading_context = hchunks[lc].heading_context
           /\ sub.content = SubSeq(hchunks[lc].content, sp.start + 1,
                                   sp.start + sp.len)

StartsLine(c, pos) == pos = 0 \/ c[pos] = "\n"

\* the indicator kinds that occur somewhere in c
IndicatorKinds(c) ==
    LET P == 0..(Len(c) - 1) IN
    (IF \E pos \in P : StartsLine(c, pos) /\ LineStartHeading(c, pos)
     THEN {"heading"} ELSE {})
    \cup (IF \E pos \in P : StartsLine(c, pos) /\ LineStartCodeFence(c, pos)
         THEN {"code_fence"} ELSE {})
    \cup (IF \E pos \in P : StartsLine(c, pos) /\ LineStartList(c, pos)
         THEN {"list"} ELSE {})
    \cup (IF \E pos \in P : StartsLine(c, pos) /\ LineStartBlockquote(c, pos)
         THEN {"blockquote"} ELSE {})
    \cup (IF \E pos \in P : InlineTable(c, pos) THEN {"table"} ELSE {})
    \cup (IF \E pos \in P : InlineLink(c, pos) THEN {"link"} ELSE {})

\* the markdown test of the call has been made
Tested == pc # frame /\ frame \in {"chunk_hybrid", "chunk_markdown"}

CodePoints(buf, from, to) ==
    Cardinality({k \in (from + 1)..to : ~IsContinuation(buf[k])})

\* the chunks of chunk_by_tokens that overlap applies to
Overlapped ==
    {i \in 1..Len(spans) :
        /\ spans[i].loop = "tok"
        /\ config.overlap > 0
        /\ config.overlap < count_tokens(chunks[i], pgedge_vectorizer_model)}

\* C10: with overlap O and a chunk i of more than O tokens, what follows
\* chunk i starts after the start of chunk i and no earlier than start_i +
\* char_offset_for_tokens(chunk_i, token_count(chunk_i) - O), so the source
\* text the two chunks share is at most 4 * O code points.
C10_Overlap ==
    \A i \in Overlapped :
        LET sp == spans[i]
            tc == count_tokens(chunks[i], pgedge_vectorizer_model)
        IN /\ chunks[i] = SubSeq(processed_content, sp.start + 1, sp.start + sp.len)
           /\ sp.next > sp.start
           /\ sp.next >= sp.start
                 + get_char_offset_for_tokens(chunks[i], tc - config.overlap,
                                              pgedge_vectorizer_model)
           /\ CodePoints(processed_content, sp.next, sp.start + sp.len)
                 <= chars_per_token * config.overlap

\* a chunk and the one after it share text
C10_Witness ==
    \E i \in Overlapped :
        /\ i < Len(spans)
        /\ spans[i + 1].start = spans[i].next
        /\ spans[i].next < spans[i].start + spans[i].len
        /\ CodePoints(processed_content, spans[i].next,
                      spans[i].start + spans[i].len) > 0

\* the iterations of chunk_by_tokens' loop
TokSpans == {i \in 1..Len(spans) : spans[i].loop = "tok"}

\* chunk i of chunk_by_tokens has no more tokens than the overlap
WithinOverlap(i) ==
    count_tokens(chunks[i], pgedge_vectorizer_model) <= config.overlap

\* C11 (amended): when overlap >= chunk_size, chunk_by_tokens ignores the
\* overlap for every chunk that has no more tokens than the overlap (so for
\* every chunk within chunk_size): the loop advances by the whole chunk and
\* what follows starts at or after the chunk's end; a chunk whose break
\* point lies past the target can hold more tokens than the overlap, and
\* then the overlap applies to it.
C11_OverlapIgnored ==
    config.overlap >= config.chunk_size =>
        \A i \in TokSpans :
            WithinOverlap(i) =>
                /\ spans[i].advance = spans[i].len
                /\ spans[i].next >= spans[i].start + spans[i].len

\* overlap >= chunk_size > 0, and a chunk within the overlap is followed by
\* a chunk that starts after it
C11_Witness ==
    /\ config.overlap >= config.chunk_size
    /\ config.chunk_size > 0
    /\ \E i \in TokSpans :
          /\ i < Len(spans)
          /\ WithinOverlap(i)
          /\ Len(chunks[i]) > 0
          /\ spans[i + 1].start >= spans[i].start + spans[i].len

\* C11 as stated: when overlap >= chunk_size, every chunk starts at or after
\* the end of the previous chunk.
C11_Original ==
    config.overlap >= config.chunk_size =>
        \A i \in TokSpans : spans[i].next >= spans[i].start + spans[i].len

\* the name parse_chunk_strategy is given
GivenName ==
    IF 1 \in args.isnull THEN pgedge_vectorizer_default_chunk_strategy
    ELSE args.strategy

StrategyTable ==
    { <<STR_token_based, "TOKEN">>, <<STR_token, "TOKEN">>,
      <<STR_semantic, "SEMANTIC">>, <<STR_markdown, "MARKDOWN">>,
      <<STR_sentence, "SENTENCE">>, <<STR_recursive, "RECURSIVE">>,
      <<STR_hybrid, "HYBRID">> }

Folded(name) == [i \in 1..Len(name) |-> pg_tolower(name[i])]

ExpectedStrategy(name) ==
    IF name # NULL /\ \E e \in StrategyTable : e[1] = Folded(name)
    THEN (CHOOSE e \in StrategyTable : e[1] = Folded(name))[2]
    ELSE "TOKEN"

\* C12: parse_chunk_strategy maps the name without regard to case:
\* token_based and token to Token, semantic, markdown, sentence, recursive
\* and hybrid to their strategies; every other name, and a null name, gives
\* Token, and the dispatch on the result never reaches the error branch.
C12_ParseStrategy ==
    /\ config # UNSET_CONFIG => config.strategy = ExpectedStrategy(GivenName)
    /\ pc # "error"

\* a name in another case than the table's was mapped to Hybrid and
\* dispatched to chunk_hybrid
C12_Witness ==
    /\ config # UNSET_CONFIG
    /\ GivenName # NULL
    /\ config.strategy = "HYBRID"
    /\ GivenName # STR_hybrid
    /\ pc = "chunk_hybrid"

\* chunking.c 194-285 as a function: the chunks the while loop appends from
\* start on, after acc
RECURSIVE TokenLoop(_, _, _, _, _, _, _)
TokenLoop(buf, start, chunk_size, overlap, pre, model, acc) ==
    IF start >= Len(buf) THEN acc
    ELSE LET end_offset == SegmentEnd(buf, start, chunk_size, pre, model)
             chunk_str == pnstrdup(CStr(Ptr(buf, start, pre)), end_offset)
             moved == start + OverlapAdvance(chunk_str, end_offset, overlap, model)
         IN IF moved >= Len(buf) THEN Append(acc, chunk_str)
            ELSE TokenLoop(buf, SkipWhitespace(buf, moved), chunk_size, overlap,
                           pre, model, Append(acc, chunk_str))

\* chunking.c 140-310 as a function: the array chunk_by_tokens returns for a
\* text, with pre the memory in front of the text
TokenChunks(text, chunk_size, overlap, strip, pre, model) ==
    IF text = NULL \/ Len(text) = 0 THEN <<>>
    ELSE LET processed == ProcessedContent(text, strip) IN
         IF Len(processed) = 0 THEN <<>>
         ELSE IF count_tokens(processed, model) <= chunk_size THEN <<processed>>
         ELSE TokenLoop(processed, 0, chunk_size, overlap, pre, model, <<>>)

\* what chunk_by_tokens returns for the call in hand
TokenResult ==
    TokenChunks(content, config.chunk_size, config.overlap,
                pgedge_vectorizer_strip_non_ascii, stray, pgedge_vectorizer_model)

Unimplemented == {"SEMANTIC", "SENTENCE", "RECURSIVE"}

\* C13: chunk_text with strategy Semantic, Sentence or Recursive returns,
\* for every content, chunk_size and overlap, the chunk sequence that
\* chunk_by_tokens (strategy Token) returns for them.
C13_Fallback ==
    (pc = "done" /\ config.strategy \in Unimplemented \cup {"TOKEN"}) =>
        result = TokenResult

\* a call with an unimplemented strategy on markdown text returned several
\* chunks
C13_Witness ==
    /\ pc = "done"
    /\ config.strategy \in Unimplemented
    /\ is_likely_markdown(content)
    /\ Len(result) >= 2

\* C14: for content that is_likely_markdown rejects, chunk_hybrid and
\* chunk_markdown return exactly the chunk sequence chunk_by_tokens returns
\* for the same content and config, overlap included.
C14_PlainFallback ==
    (/\ pc = "done"
     /\ frame \in {"chunk_hybrid", "chunk_markdown"}
     /\ content # NULL
     /\ ~is_likely_markdown(content)) =>
        /\ ~likely_markdown
        /\ result = TokenResult
        /\ result = chunks

\* chunk_markdown returned overlapping token chunks for plain text
C14_Witness ==
    /\ pc = "done"
    /\ frame = "chunk_markdown"
    /\ content # NULL
    /\ ~is_likely_markdown(content)
    /\ config.overlap > 0
    /\ Len(result) >= 2
    /\ \E i \in 1..Len(spans) :
          /\ spans[i].loop = "tok"
          /\ spans[i].next < spans[i].start + spans[i].len

\* the text chunk_by_tokens has filtered
Filtered ==
    /\ pc # "chunk_by_tokens"
    /\ frame = "none"
    /\ content # NULL
    /\ Len(content) > 0
    /\ pgedge_vectorizer_strip_non_ascii

\* byte i of text starts a maximal run of bytes >= 0x80
StartsRun(text, i) ==
    /\ IsNonAscii(text[i])
    /\ i = 1 \/ ~IsNonAscii(text[i - 1])

\* the input bytes that leave a byte in the output, in order: every ASCII
\* byte, and the first byte of a run that has a byte other than a space
\* right in front of it
Leaves(text, i) ==
    \/ ~IsNonAscii(text[i])
    \/ StartsRun(text, i) /\ i > 1 /\ text[i - 1] # " "

\* the input bytes that leave a byte if every run gives one space
LeavesAsStated(text, i) == ~IsNonAscii(text[i]) \/ StartsRun(text, i)

RECURSIVE Sources(_, _, _)
Sources(text, i, acc) ==
    IF i > Len(text) THEN acc
    ELSE Sources(text, i + 1, IF Leaves(text, i) THEN Append(acc, i) ELSE acc)

RECURSIVE SourcesAsStated(_, _, _)
SourcesAsStated(text, i, acc) ==
    IF i > Len(text) THEN acc
    ELSE SourcesAsStated(text, i + 1,
                         IF LeavesAsStated(text, i) THEN Append(acc, i) ELSE acc)

\* the output a list of source bytes stands for
Image(text, src) ==
    [k \in 1..Len(src) |-> IF IsNonAscii(text[src[k]]) THEN " " ELSE text[src[k]]]

\* two adjacent spaces of the output at k, k + 1
DoubleSpaceAt(out, k) == out[k] = " " /\ out[k + 1] = " "

C16_NoNonAscii ==
    (pc = "done" /\ pgedge_vectorizer_strip_non_ascii) =>
        \A i \in 1..Len(result) : ~HasNonAscii(result[i])

\* elements_to_chunks_simple stands between two elements, or has returned
SimpleBetween ==
    /\ frame = "chunk_markdown"
    /\ likely_markdown
    /\ pc \in {"simple", "done"}
    /\ elements # <<>>

\* the iterations of the loop that segments element j
ElementSpans(j) ==
    SelectSeq(spans, LAMBDA sp : sp.loop = "simple" /\ sp.unit = j)

Fits(elem) == ~IsSkipped(elem) /\ elem.token_count <= config.chunk_size

\* the number of chunks element j is to give
Owned(j) ==
    IF IsSkipped(elements[j]) THEN 0
    ELSE IF Fits(elements[j]) THEN 1
    ELSE Len(ElementSpans(j))

\* the number of chunks the elements before j are to give
RECURSIVE OwnedBefore(_)
OwnedBefore(j) == IF j <= 1 THEN 0 ELSE OwnedBefore(j - 1) + Owned(j - 1)

\* C17: chunk_markdown never merges: an element that is no horizontal rule
\* and has at most chunk_size tokens gives exactly one chunk, which holds that
\* element's content under that element's context, and every other chunk is
\* a piece of one larger element; no chunk holds content of two elements.
C17_NoMerge ==
    SimpleBetween =>
        /\ Len(out_chunks) = OwnedBefore(lc)
        /\ \A j \in 1..(lc - 1) :
              LET elem == elements[j]
                  at == OwnedBefore(j)
              IN IF Fits(elem)
                 THEN /\ out_chunks[at + 1].content = elem.content
                      /\ out_chunks[at + 1].heading_context = elem.heading_context
                 ELSE \A m \in 1..Owned(j) :
                        LET sp == ElementSpans(j)[m] IN
                        /\ out_chunks[at + m].content
                             = SubSeq(elem.content, sp.start + 1, sp.start + sp.len)
                        /\ out_chunks[at + m].heading_context = elem.heading_context
        /\ pc = "done" => result = RenderAll(out_chunks)

\* two small neighbours that chunk_hybrid would merge were returned apart
C17_Witness ==
    /\ SimpleBetween
    /\ pc = "done"
    /\ \E j \in 1..(Len(elements) - 1) :
          /\ Fits(elements[j])
          /\ Fits(elements[j + 1])
          /\ CanMerge(create_hybrid_chunk(elements[j].content,
                                          elements[j].heading_context),
                      create_hybrid_chunk(elements[j + 1].content,
                                          elements[j + 1].heading_context),
                      config.chunk_size)
          /\ result[OwnedBefore(j) + 1]
               = RenderChunk(create_hybrid_chunk(elements[j].content,
                                                 elements[j].heading_context))
          /\ result[OwnedBefore(j) + 2]
               = RenderChunk(create_hybrid_chunk(elements[j + 1].content,
                                                 elements[j + 1].heading_context))

\* C18: every ChunkConfig that reaches chunk_text, the one the SQL entry
\* point builds from its arguments and the global defaults included, has
\* chunk_size in 50..2000 and overlap in 0..500.
C18_ConfigRange ==
    pc = "chunk_text" =>
        /\ config.chunk_size \in 50..2000
        /\ config.overlap \in 0..500

\* the array chunk_by_tokens returns when its scans read the text alone
TokenResultOfText ==
    TokenChunks(content, config.chunk_size, config.overlap,
                pgedge_vectorizer_strip_non_ascii, 0, pgedge_vectorizer_model)

\* C19: chunking is deterministic and stateless: what a call returns is
\* fixed by its content, config and ASCII-only toggle, whatever calls were
\* made before.  Stated for the calls that chunk_by_tokens serves: the
\* returned array is the one those three determine, whatever lies in memory
\* in front of the text.
C19_Deterministic ==
    (pc = "done" /\ frame = "none") => result = TokenResultOfText

\* t occurs in s
Contains(s, t) ==
    \E a \in 0..(Len(s) - Len(t)) : SubSeq(s, a + 1, a + Len(t)) = t

\* a markdown run of chunk_hybrid or chunk_markdown has returned
MarkdownReturned ==
    /\ pc = "done"
    /\ frame \in {"chunk_hybrid", "chunk_markdown"}
    /\ likely_markdown
    /\ elements # <<>>

Rules == {j \in 1..Len(elements) : elements[j].type = "HORIZONTAL_RULE"}

\* the text of rule j occurs in no other element and in no heading context
RuleTextApart(j) ==
    \A k \in 1..Len(elements) :
        /\ k \notin Rules => ~Contains(elements[k].content, elements[j].content)
        /\ elements[k].heading_context # NULL =>
              ~Contains(elements[k].heading_context, elements[j].content)

\* element k, which fits a chunk, is in a returned chunk
Chunked(k) ==
    (k \in 1..Len(elements) /\ k \notin Rules
        /\ elements[k].token_count <= config.chunk_size) =>
    \E i \in 1..Len(result) : Contains(result[i], elements[k].content)

\* C20: chunk_hybrid and chunk_markdown drop the HorizontalRule elements: a
\* rule line outside a code block gives no text to any returned chunk, and
\* the elements before and after it are chunked all the same.
C20_RuleDropped ==
    MarkdownReturned =>
        /\ frame = "chunk_hybrid" =>
              Len(hchunks) = Len(elements) - Cardinality(Rules)
        /\ \A j \in Rules :
              /\ RuleTextApart(j) =>
                    \A i \in 1..Len(result) :
                        ~Contains(result[i], elements[j].content)
              /\ Chunked(j - 1)
              /\ Chunked(j + 1)

\* a rule between two elements is gone and both neighbours were returned
C20_Witness ==
    /\ MarkdownReturned
    /\ \E j \in Rules :
          /\ j > 1 /\ j < Len(elements)
          /\ {j - 1, j + 1} \cap Rules = {}
          /\ elements[j - 1].token_count <= config.chunk_size
          /\ elements[j + 1].token_count <= config.chunk_size
          /\ RuleTextApart(j)
          /\ \A i \in 1..Len(result) : ~Contains(result[i], elements[j].content)
          /\ \E i \in 1..Len(result) : Contains(result[i], elements[j - 1].content)
          /\ \E i \in 1..Len(result) : Contains(result[i], elements[j + 1].content)

\* find_good_break_point has returned
BreakReturned == pc = "done" /\ call.fn = "find_good_break_point"

\* the byte at position o of the text itself
TextAt(text, o) == At(CStr(text), o)

\* the positions of the text within 50 of the target and below max_offset
TextWindow(target_offset, max_offset) ==
    {o \in (target_offset - search_window)..(target_offset + search_window - 1) :
        o >= 0 /\ o < max_offset}

ParagraphBreaks(text, W) ==
    {o \in W : o > 0 /\ TextAt(text, o - 1) = "\n" /\ TextAt(text, o) = "\n"}

SentenceEnds(text, W) ==
    {o \in W : o > 0 /\ TextAt(text, o - 1) \in {".", "?", "!"}
                     /\ TextAt(text, o) \in {" ", "\n"}}

WordBreaks(text, W) == {o \in W : TextAt(text, o) \in {" ", "\n"}}

\* the break point by the tiers: the lowest offset of the first tier that has one
TierBreak(text, target_offset, max_offset) ==
    LET W == TextWindow(target_offset, max_offset) IN
    IF target_offset >= max_offset THEN max_offset
    ELSE IF ParagraphBreaks(text, W) # {} THEN MinOf(ParagraphBreaks(text, W))
    ELSE IF SentenceEnds(text, W) # {} THEN MinOf(SentenceEnds(text, W))
    ELSE IF WordBreaks(text, W) # {} THEN MinOf(WordBreaks(text, W))
    ELSE MinOf({target_offset, max_offset})

\* C21: find_good_break_point returns max_offset when target_offset >=
\* max_offset, and otherwise the lowest paragraph break of the text within 50
\* of the target and below max_offset, else the lowest sentence end, else the
\* lowest word break, else min(target_offset, max_offset).
C21_BreakPoint ==
    BreakReturned =>
        call.ret = TierBreak(call.text, call.target_offset, call.max_offset)

EndsWith(s, t) ==
    Len(s) >= Len(t) /\ SubSeq(s, Len(s) - Len(t) + 1, Len(s)) = t

\* the context the latest heading element before position i carries, NULL
\* when no heading element comes before
ContextBefore(elems, i) ==
    LET H == {j \in 1..(i - 1) : elems[j].type = "HEADING"}
    IN  IF H = {} THEN NULL
        ELSE elems[CHOOSE j \in H : \A k \in H : k <= j].heading_context

\* the breadcrumb entry of a heading element: its '#'s, a space, its text
OwnEntry(elem) ==
    Hashes(elem.heading_level) \o <<" ">>
    \o HeadingText(elem.content, elem.heading_level)

\* C22: every element of parse_markdown_structure carries the heading context
\* in effect when its content was read: a heading element carries the
\* context updated by its own line (which ends with its own entry), every
\* other element the context of the latest heading element before it (none
\* before the first heading), and so does the content still pending.
C22_ElementContext ==
    /\ \A i \in 1..Len(parser.elements) :
          LET elem == parser.elements[i] IN
          IF elem.type = "HEADING"
          THEN /\ elem.heading_context # NULL
               /\ EndsWith(elem.heading_context, OwnEntry(elem))
          ELSE elem.heading_context = ContextBefore(parser.elements, i)
    /\ parser.current_heading_context
         = ContextBefore(parser.elements, Len(parser.elements) + 1)

\* text under one heading was pending when the line of another heading
\* arrived: it went out with the first context, the heading and the text
\* after it with the second
C22_Witness ==
    /\ pc = "split"
    /\ content = <<"#", " ", "A", "\n", "X", "\n", "#", " ", "C", "\n", "X">>
    /\ Len(elements) = 4
    /\ elements[2].type = "PARAGRAPH"
    /\ elements[2].heading_context = <<"#", " ", "A">>
    /\ elements[3].type = "HEADING"
    /\ elements[3].heading_context = <<"#", " ", "C">>
    /\ elements[4].heading_context = <<"#", " ", "C">>

\* the parser is about to read a line
AtLine == pc = "parse" /\ parser.pos < Len(content)

\* the line the parser is about to read, and that line with its newline
CurrentLine == SubSeq(content, parser.pos + 1, LineEnd(content, parser.pos))

CurrentRaw ==
    SubSeq(content, parser.pos + 1,
           IF At(content, LineEnd(content, parser.pos)) = "\n"
           THEN LineEnd(content, parser.pos) + 1
           ELSE LineEnd(content, parser.pos))

HeadingsKept ==
    /\ parser'.heading_stack = parser.heading_stack
    /\ parser'.current_heading_context = parser.current_heading_context

\* a line read in code-block mode that is no fence joins the block as it is
CodeLineStep ==
    (AtLine /\ parser.in_code_block /\ ~is_code_fence(CurrentLine)) =>
        /\ parser'.in_code_block
        /\ parser'.current_block = parser.current_block \o CurrentRaw
        /\ parser'.elements = parser.elements
        /\ HeadingsKept

\* the fence line that closes the block joins it too, and the block goes out
\* as one CodeBlock element
CodeCloseStep ==
    (AtLine /\ parser.in_code_block /\ is_code_fence(CurrentLine)) =>
        /\ ~parser'.in_code_block
        /\ Len(parser'.elements) = Len(parser.elements) + 1
        /\ SubSeq(parser'.elements, 1, Len(parser.elements)) = parser.elements
        /\ parser'.elements[Len(parser'.elements)].type = "CODE_BLOCK"
        /\ parser'.elements[Len(parser'.elements)].content
             = parser.current_block \o CurrentRaw
        /\ HeadingsKept

\* C23: in code-block mode every line (blank, heading-like, list, table and
\* horizontal-rule lines included) is appended verbatim to the one CodeBlock
\* element being built; no other element is emitted and the heading stack and
\* the heading context stay as they are until the block is closed.
C23_CodeBlockMode == [][CodeLineStep /\ CodeCloseStep]_vars

\* a block under a heading that holds a blank line, a heading-like line, a
\* list item, a table row, a rule and a quote, about to be closed
C23_Witness ==
    /\ AtLine
    /\ parser.in_code_block
    /\ is_code_fence(CurrentLine)
    /\ Len(parser.elements) = 1
    /\ parser.current_heading_context = <<"#", " ", "A">>
    /\ parser.current_block
         = Lines(<< FENCE_BACKTICKS, <<>>, <<"#", " ", "B">>, <<"-", " ", "a">>,
                    <<"|", "d", "|", "e", "|">>, <<"-", "-", "-">>,
                    <<">", " ", "q">> >>) \o <<"\n">>

\* the character a fence line is made of
FenceChar(line) == line[RunLen(line, 0, 3, IsSpaceChar) + 1]

\* the fence line that opened the block being built: its first line
OpeningFence ==
    SubSeq(parser.current_block, 1, LineEnd(parser.current_block, 0))

\* C24: a code block opened by a fence is closed only by the matching fence:
\* a fence line of the other kind read in code-block mode leaves the block
\* open and is kept as content of the block.
C24_MatchingFence ==
    [][(/\ AtLine
        /\ parser.in_code_block
        /\ is_code_fence(CurrentLine)
        /\ FenceChar(CurrentLine) # FenceChar(OpeningFence))
       => /\ parser'.in_code_block
          /\ parser'.elements = parser.elements
          /\ parser'.current_block = parser.current_block \o CurrentRaw]_vars

\* the kinds whose test a line passes
LineKinds(line) ==
    (IF is_list_item(line) THEN {"LIST_ITEM"} ELSE {})
    \cup (IF is_blockquote(line) THEN {"BLOCKQUOTE"} ELSE {})
    \cup (IF is_table_row(line) THEN {"TABLE"} ELSE {})

\* the line reaches the kind tests of the parser
KindLine(line) ==
    /\ ~is_code_fence(line)
    /\ ~is_blank_line(line)
    /\ get_heading_level(line) = 0
    /\ ~is_horizontal_rule(line)

\* the last line of the block being built
LastLine(block) ==
    LET N == {k \in 1..Len(block) : block[k] = "\n"}
    IN  SubSeq(block, IF N = {} THEN 1
                      ELSE (CHOOSE k \in N : \A j \in N : j <= k) + 1,
               Len(block))

\* C25: consecutive lines of the same kind (list item, blockquote or table
\* row) with no blank line between them accumulate into one element, also
\* when a line passes more than one kind test: a line that shares a kind with
\* the line before it joins the block and no element is emitted.
C25_SameKindAccumulates ==
    [][(/\ AtLine
        /\ ~parser.in_code_block
        /\ Len(parser.current_block) > 0
        /\ KindLine(CurrentLine)
        /\ KindLine(LastLine(parser.current_block))
        /\ LineKinds(CurrentLine) \cap LineKinds(LastLine(parser.current_block)) # {})
       => /\ parser'.elements = parser.elements
          /\ parser'.current_block
               = parser.current_block \o <<"\n">> \o CurrentLine]_vars

\* get_char_offset_for_tokens has returned
OffsetReturned == pc = "done" /\ call.fn = "get_char_offset_for_tokens"

\* the text up to the returned offset
OffsetPrefix == IF call.text = NULL THEN <<>> ELSE SubSeq(call.text, 1, call.ret)

MergeInputWithinLimit ==
    /\ frame = "chunk_hybrid"
    /\ pc \in {"merge", "done"}
    /\ \A i \in 1..Len(refined_chunks) :
          refined_chunks[i].token_count <= config.chunk_size

\* C27: when every chunk given to merge_undersized_chunks has token_count <=
\* max_tokens, so has every chunk it emits, and so has the pending chunk after
\* every merge.
C27_MergedWithinLimit ==
    MergeInputWithinLimit =>
        /\ \A j \in 1..Len(out_chunks) :
              out_chunks[j].token_count <= config.chunk_size
        /\ pending.token_count <= config.chunk_size

\* the contents of a run of chunks joined by blank lines
RECURSIVE JoinContents(_)
JoinContents(list) ==
    IF Len(list) = 1 THEN list[1].content
    ELSE list[1].content \o <<"\n", "\n">> \o JoinContents(Tail(list))

\* outs are ins cut into consecutive runs, each run joined into one chunk
RECURSIVE Regrouped(_, _)
Regrouped(ins, outs) ==
    IF Len(outs) = 0 THEN Len(ins) = 0
    ELSE \E k \in 1..Len(ins) :
            /\ outs[1].content = JoinContents(SubSeq(ins, 1, k))
            /\ Regrouped(SubSeq(ins, k + 1, Len(ins)), Tail(outs))

\* the chunks the merge pass has taken in, and what it has made of them
MergeTaken == SubSeq(refined_chunks, 1, lc - 1)

MergeMade ==
    IF pending # NULL_CHUNK THEN Append(out_chunks, pending) ELSE out_chunks

\* a pending chunk that is not joined to the current chunk goes out as it
\* is, right before the current chunk
PendingGoesFirst ==
    (MergeStep /\ ~Combined) =>
        /\ Len(out_chunks') >= Len(out_chunks) + 1
        /\ SubSeq(out_chunks', 1, Len(out_chunks)) = out_chunks
        /\ out_chunks'[Len(out_chunks) + 1] = pending
        /\ IF Len(out_chunks') = Len(out_chunks) + 1
           THEN pending' = Current
           ELSE /\ Len(out_chunks') = Len(out_chunks) + 2
                /\ out_chunks'[Len(out_chunks) + 2] = Current
                /\ pending' = NULL_CHUNK

\* C28: merge_undersized_chunks neither drops, duplicates nor reorders
\* content: the chunks it has emitted or holds pending are the input chunks
\* taken so far, in their order, cut into consecutive runs with each run
\* joined by "\n\n"; a pending chunk that cannot be merged is emitted
\* unchanged before the chunk that follows it.
C28_MergeKeepsContent ==
    /\ []((frame = "chunk_hybrid" /\ pc \in {"merge", "done"})
            => Regrouped(MergeTaken, MergeMade))
    /\ [][PendingGoesFirst]_vars

\* the pass has ended: it merged some of its chunks and kept others apart
C28_Witness ==
    /\ pc = "done"
    /\ frame = "chunk_hybrid"
    /\ Len(refined_chunks) >= 3
    /\ Len(out_chunks) >= 2
    /\ Len(out_chunks) < Len(refined_chunks)
    /\ \E j \in 1..Len(out_chunks) :
          \A i \in 1..Len(refined_chunks) :
             out_chunks[j].content # refined_chunks[i].content

\* the iterations of the loop of chunk_by_tokens so far
TokSegments == SelectSeq(spans, LAMBDA sp : sp.loop = "tok")

\* byte k (0-based) of the buffer lies in one of the segments of S
InSegment(S, k) ==
    \E i \in 1..Len(S) : S[i].start <= k /\ k < S[i].start + S[i].len

Whitespace == {" ", "\t", "\n", "\r"}

\* chunk_by_tokens: every byte that is not whitespace, up to where the loop
\* stands, is in a chunk; the chunks are the slices, in source order, and only
\* whitespace lies between the end of one and the start of the next
TokensCover ==
    (frame = "none" /\ pc \in {"tok_loop", "done"} /\ Len(TokSegments) > 0) =>
        LET S == TokSegments
            buf == processed_content
        IN /\ Len(chunks) = Len(S)
           /\ S[1].start = 0
           /\ \A i \in 1..Len(S) :
                 chunks[i] = SubSeq(buf, S[i].start + 1, S[i].start + S[i].len)
           /\ \A k \in 0..(start_offset - 1) :
                 buf[k + 1] \notin Whitespace => InSegment(S, k)
           /\ \A i \in 1..(Len(S) - 1) :
                 /\ S[i + 1].start > S[i].start
                 /\ \A k \in (S[i].start + S[i].len)..(S[i + 1].start - 1) :
                       buf[k + 1] \in Whitespace
           /\ pc = "done" => start_offset = Len(buf)

\* chunk_by_tokens on a content within chunk_size: the one chunk is the content
OneChunk ==
    (frame = "none" /\ pc = "done" /\ Len(spans) = 0
                    /\ Len(processed_content) > 0) =>
        chunks = <<processed_content>>

\* split_oversized_chunks: the sub-chunks of every oversized chunk it is
\* through with are consecutive slices with only whitespace skipped
SplitCovers ==
    \A u \in 1..Len(hchunks) :
        (/\ frame = "chunk_hybrid"
         /\ SplitFinished(u)
         /\ hchunks[u].token_count > config.chunk_size
         /\ Len(hchunks[u].content) > 0)
            => Covering(hchunks[u].content, SubSpans(u))

\* the step that adds a sub-chunk gives it the slice of the content
SliceKept ==
    (pc = "split_loop") =>
        LET sp == spans'[Len(spans')]
        IN /\ Len(refined_chunks') = Len(refined_chunks) + 1
           /\ Len(spans') = Len(spans) + 1
           /\ sp.start = start_offset
           /\ refined_chunks'[Len(refined_chunks')].content =
                 SubSeq(hchunks[lc].content, sp.start + 1, sp.start + sp.len)

\* C29: segmentation loses no text. In chunk_by_tokens every non-whitespace
\* byte of the filtered content lies in at least one chunk; in
\* split_oversized_chunks every non-whitespace byte of the oversized chunk
\* lies in exactly one sub-chunk, the sub-chunks in source order; the bytes
\* skipped between consecutive segments are spaces, tabs, newlines and
\* carriage returns only.
C29_NoTextLost ==
    /\ [](TokensCover /\ OneChunk /\ SplitCovers)
    /\ [][SliceKept]_vars

\* chunk_by_tokens has ended on a content where one chunk overlaps the next
\* and whitespace was skipped between two others
C29_Witness ==
    /\ frame = "none"
    /\ pc = "done"
    /\ \E i \in 1..(Len(TokSegments) - 1) :
          TokSegments[i + 1].start > TokSegments[i].start + TokSegments[i].len
    /\ \E i \in 1..(Len(TokSegments) - 1) :
          TokSegments[i + 1].start < TokSegments[i].start + TokSegments[i].len

\* where segment i of chunk_by_tokens ends in the content
EndPosition(i) == TokSegments[i].start + TokSegments[i].len

\* C30: in chunk_by_tokens every chunk after the first covers new source
\* text: the end position of chunk i+1 in the content is strictly greater
\* than the end position of chunk i.
C30_NewText ==
    \A i \in 1..(Len(TokSegments) - 1) : EndPosition(i + 1) > EndPosition(i)

\* the buffer the loop of segment sp walked
BufferOf(sp) ==
    CASE sp.loop = "tok" -> processed_content
      [] sp.loop = "split" -> hchunks[sp.unit].content
      [] sp.loop = "simple" -> elements[sp.unit].content

\* the three segmentation loops on texts with every kind of whitespace
MaxSpacePieces == 4

SpacePieces == { <<"a", "b", "c", "d">>, <<" ">>, <<"\t">>, <<"\r">>, <<"\n">> }

\* a heading (which makes the text markdown) and a body of at most n pieces
SpaceTexts(n) == {<<"#", " ", "A", "\n">> \o body : body \in Concats(SpacePieces, n)}

InitLoops ==
    /\ InitCommon
    /\ content \in SpaceTexts(MaxSpacePieces)
    /\ pgedge_vectorizer_strip_non_ascii = FALSE
    /\ pc \in {"chunk_by_tokens", "chunk_hybrid", "chunk_markdown"}
    /\ config \in {Config(StrategyOf(pc), n, o) :
                      n \in 1..MaxChunkSize, o \in 0..MaxOverlap}

NextLoops ==
    \/ chunk_by_tokens \/ tok_loop
    \/ chunk_hybrid \/ chunk_markdown \/ parse_line \/ parse_end
    \/ split_chunk \/ split_loop \/ split_done
    \/ merge_chunk \/ merge_done
    \/ simple_elem \/ simple_loop \/ simple_done

SpecLoops == InitLoops /\ [][NextLoops]_vars

\* C31: in all three segmentation loops every segment after the first
\* begins with a byte that is not whitespace: none begins with a space, tab,
\* newline or carriage return.
C31_NoLeadingWhitespace ==
    \A i \in 1..Len(spans) :
        spans[i].start > 0 =>
            BufferOf(spans[i])[spans[i].start + 1] \notin Whitespace

\* the lines of a text: a newline ends a line, the last line may lack one
RECURSIVE SplitLines(_)
SplitLines(text) ==
    IF Len(text) = 0 THEN <<>>
    ELSE LET line_end == LineEnd(text, 0)
         IN <<SubSeq(text, 1, line_end)>>
            \o SplitLines(SubSeq(text, line_end + 2, Len(text)))

\* no code block is open
NO_FENCE == "none"

\* the lines that are not to be lost: every line from an opening fence to
\* the matching fence that closes it (open is the character of the opening
\* fence), and outside of these every line that is not blank
RECURSIVE KeptLines(_, _)
KeptLines(lines, open) ==
    IF Len(lines) = 0 THEN <<>>
    ELSE LET line == Head(lines)
             fence == is_code_fence(line)
         IN IF open # NO_FENCE
            THEN <<line>> \o KeptLines(Tail(lines),
                                IF fence /\ FenceChar(line) = open
                                THEN NO_FENCE ELSE open)
            ELSE IF fence THEN <<line>> \o KeptLines(Tail(lines), FenceChar(line))
            ELSE IF is_blank_line(line) THEN KeptLines(Tail(lines), NO_FENCE)
            ELSE <<line>> \o KeptLines(Tail(lines), NO_FENCE)

\* the lines of the contents of a list of elements, in the order of the list
RECURSIVE ElementLines(_)
ElementLines(list) ==
    IF Len(list) = 0 THEN <<>>
    ELSE SplitLines(Head(list).content) \o ElementLines(Tail(list))

\* parse_markdown_structure has returned its elements
Parsed == frame = "chunk_markdown" /\ pc \in {"simple", "done"}

\* C32: parse_markdown_structure loses no line: every non-blank input line,
\* and every line inside a code block, appears in the content of exactly one
\* emitted element, and the elements are emitted in input order; only blank
\* lines outside code blocks are discarded.
C32_NoLineLost ==
    Parsed => ElementLines(elements) = KeptLines(SplitLines(content), NO_FENCE)

\* offset k of buf is not between the bytes of a character
OnCodePoint(buf, k) == ~IsContinuation(At(buf, k))

\* C33: every segment boundary chosen by the segmentation loops lies on a
\* UTF-8 code point boundary: no chunk ends with a truncated character or
\* begins with a continuation byte.
C33_CodePointBoundaries ==
    \A i \in 1..Len(spans) :
        /\ OnCodePoint(BufferOf(spans[i]), spans[i].start)
        /\ OnCodePoint(BufferOf(spans[i]), spans[i].start + spans[i].len)

\* C34: for every text, every target_offset >= 0 and every max_offset up to
\* the text length, find_good_break_point examines only text positions in
\* 0..max_offset-1 and returns an offset in 0..max_offset, also when
\* target_offset is smaller than the 50-character search window.
C34_BreakInBounds ==
    (/\ BreakReturned
     /\ call.target_offset >= 0
     /\ call.max_offset <= Len(CStr(call.text)))
        => /\ call.ret \in 0..call.max_offset
           /\ Examined(call.text, call.target_offset, call.max_offset)
                 \subseteq 0..(call.max_offset - 1)

----------------------------------------------------------------------------
(* The queue and its workers *)

\* the transaction of worker w ends with this step, by commit or by abort
TransactionEnds(w) ==
    /\ InTransaction(w)
    /\ workers'[w].pc \in {"idle", "cleanup"}

\* the row update_embedding is about to be called for
CurrentRow(w) ==
    workers[w].queue_ids[workers[w].batch_start + workers[w].i + 1]

\* the rows a failed attempt was made on in the transaction of worker w, the
\* step about to be taken included: generation failures, and the update
\* that fails now
FailedAttempts(w) ==
    workers[w].failed \cup
        (IF /\ workers[w].pc = "update"
            /\ queue[CurrentRow(w)].chunk_table \notin ChunkTables
         THEN {CurrentRow(w)} ELSE {})

AttemptCounted ==
    \A w \in DOMAIN workers :
        TransactionEnds(w) =>
            \A id \in FailedAttempts(w) :
                /\ queue'[id].attempts = queue[id].attempts + 1
                /\ queue[id].attempts + 1 >= queue[id].max_attempts
                       => queue'[id].status = "failed"

\* no row a worker holds has used up its attempts
HasAttemptsLeft ==
    \A w \in DOMAIN workers : \A id \in Range(workers[w].queue_ids) :
        /\ queue[id].status = "pending"
        /\ queue[id].attempts < queue[id].max_attempts

\* C35: every failed attempt on a queue item (a generation failure or an
\* update failure) is stored as attempts + 1 when the transaction ends, the
\* item is stored as 'failed' once attempts + 1 >= max_attempts, and a
\* worker selects only pending items with attempts left
C35_AttemptsCounted == [][AttemptCounted]_vars /\ []HasAttemptsLeft

\* C36: the delays a queue item was given after its failed attempts grow
\* exponentially: each is at least twice the one before it
C36_ExponentialBackoff ==
    \A id \in DOMAIN queue :
        \A k \in 2..Len(queue[id].backoff) :
            queue[id].backoff[k] >= 2 * queue[id].backoff[k - 1]

\* the rows worker w has fetched and is working on
Fetched(w) == IF InTransaction(w) THEN Range(workers[w].queue_ids) ELSE {}

\* C37: two workers inside process_queue_batch at the same time never hold
\* the same queue item: what one has selected is skipped by the other until
\* the first one's transaction ends
C37_NoItemTwice ==
    \A w1, w2 \in DOMAIN workers :
        w1 # w2 => Fetched(w1) \cap Fetched(w2) = {}

\* two workers hold rows at the same time, and the one that came second
\* was given rows behind those the first had locked
C37_Witness ==
    \E w1, w2 \in DOMAIN workers :
        /\ w1 # w2
        /\ Fetched(w1) # {}
        /\ Fetched(w2) # {}
        /\ \E id1 \in Fetched(w1), id2 \in Fetched(w2) :
              /\ id1 < id2
              /\ queue[id1].attempts = queue[id2].attempts
              /\ workers[w2].pc = "provider"

FetchedEnd ==
    \A w \in DOMAIN workers :
        TransactionEnds(w) =>
            \A id \in Range(workers[w].queue_ids) :
                queue'[id].status \in {"completed", "failed", "pending"}

\* C39: when process_queue_batch ends, by its commit or by the abort of its
\* transaction, every item it fetched is stored as 'completed', 'failed' or
\* 'pending', and no stored item is 'processing'
C39_NoneLeftProcessing ==
    /\ [][FetchedEnd]_vars
    /\ [](\A id \in DOMAIN queue : queue[id].status # "processing")

\* a worker has just committed a call in which one item was completed and
\* another one failed
C39_Witness ==
    \E w \in DOMAIN workers :
        /\ workers[w].pc = "cleanup"
        /\ \E id1, id2 \in DOMAIN queue :
              /\ queue[id1].status = "completed"
              /\ queue[id2].attempts > 0
              /\ queue[id2].status \in {"failed", "pending"}

\* the item is stored as pending
Pending(id) == id \in DOMAIN queue /\ queue[id].status = "pending"

\* the item is stored as completed (or was, and has been cleaned up) or as
\* failed
Settled(id) ==
    id \in DOMAIN queue => queue[id].status \in {"completed", "failed"}

\* C38: with a worker that keeps polling, every pending queue item is
\* eventually stored as 'completed' or 'failed'
C38_EveryItemSettled ==
    \A id \in 1..MaxItems : Pending(id) ~> Settled(id)

=============================================================================
